---- MODULE Spec2Model ----
(***************************************************************************)
(* Daily planning pipeline of the procurement backend: store selection     *)
(* with quantity splitting, staff assignment, route generation and the     *)
(* execution tracker, over the relational state they share.                *)
(*                                                                         *)
(* Conventions.  A nullable column / Optional value is a sequence of       *)
(* length 0 (None) or 1 (Some(v)).  Coordinates are points of an integer   *)
(* grid whose unit is 1 km; distances are integers in units of 0.01 km.    *)
(* All planning is for one target date.                                    *)
(***************************************************************************)
EXTENDS Integers, Sequences, FiniteSets, TLC

\* ------------------------------------------------------------------ bounds
MaxQty == 3
MaxCands == 3
MaxCap == 2

\* ----------------------------------------------------------------- helpers
None == << >>
Some(v) == <<v>>
IsNone(o) == Len(o) = 0
Val(o) == o[1]

\* F applied to the value of v (v is evaluated once).
With(v, F(_)) == CHOOSE y \in {F(x) : x \in {v}} : TRUE

Min(a, b) == IF a < b THEN a ELSE b
Max(a, b) == IF a > b THEN a ELSE b

RECURSIVE SumQty(_)
SumQty(allocs) ==
    IF allocs = << >> THEN 0 ELSE allocs[1].quantity + SumQty(Tail(allocs))

\* floor(sqrt(n)) for 0 <= n < bound * bound
ISqrt(n, bound) == CHOOSE r \in 0..bound : r * r <= n /\ n < (r + 1) * (r + 1)

\* ------------------------------------------------------------ master data
\* Store rows: priority_level and (latitude, longitude); a store without
\* coordinates has latlng = None.
StoreLatLng(s) ==
    CASE s = 1 -> Some(<<1, 1>>)
      [] s = 2 -> Some(<<1, 4>>)
      [] s = 3 -> Some(<<5, 1>>)
      [] OTHER -> None

StorePriorityLevel(s) == IF s = 1 THEN 1 ELSE 2

StoreRow(s) == [store_id |-> s, priority_level |-> StorePriorityLevel(s),
                latlng |-> StoreLatLng(s)]

\* Great-circle distance of two points, in 0.01 km, on the flat grid.
GridMax == 6
SqrtTable == [n \in 0..(2 * GridMax * GridMax) |-> ISqrt(10000 * n, 200 * GridMax)]
calculate_distance(p, q) ==
    SqrtTable[(p[1] - q[1]) * (p[1] - q[1]) + (p[2] - q[2]) * (p[2] - q[2])]

\* ------------------------------------------------- store selection service
calculate_store_score(mapping, store, staff_location) ==
    LET stock == CASE mapping.stock_status = "in_stock" -> 100
                   [] mapping.stock_status = "low_stock" -> 50
                   [] mapping.stock_status = "unknown" -> 25
                   [] OTHER -> 0
        storePri == Max(0, 10 - store.priority_level) * 5
        mapPri == IF ~IsNone(mapping.priority) /\ Val(mapping.priority) # 0
                  THEN Max(0, 10 - Val(mapping.priority)) * 3 ELSE 0
        primary == IF mapping.is_primary_store THEN 20 ELSE 0
        dscore == IF ~IsNone(staff_location) /\ ~IsNone(store.latlng)
                  THEN LET distance == calculate_distance(Val(staff_location), Val(store.latlng))
                       IN  CASE distance < 100 -> 50
                             [] distance < 300 -> 30
                             [] distance < 500 -> 15
                             [] distance < 1000 -> 5
                             [] OTHER -> 0
                  ELSE 0
    IN  stock + storePri + mapPri + primary + dscore

\* The estimate max_daily_quantity taken before current_available.
get_available_quantity_estimate_first(mapping) ==
    IF ~IsNone(mapping.max_daily_quantity) THEN mapping.max_daily_quantity
    ELSE IF ~IsNone(mapping.current_available) THEN mapping.current_available
    ELSE IF mapping.stock_status \in {"out_of_stock", "discontinued"} THEN Some(0)
    ELSE None

get_available_quantity(mapping) ==
    IF ~IsNone(mapping.current_available) THEN mapping.current_available
    ELSE IF ~IsNone(mapping.max_daily_quantity) THEN mapping.max_daily_quantity
    ELSE IF mapping.stock_status \in {"out_of_stock", "discontinued"} THEN Some(0)
    ELSE None

\* list.sort(key=score, reverse=True): stable, equal scores keep read order.
RECURSIVE InsertByScore(_, _)
InsertByScore(sorted, x) ==
    IF sorted = << >> THEN <<x>>
    ELSE IF sorted[1].score >= x.score
         THEN <<sorted[1]>> \o InsertByScore(Tail(sorted), x)
         ELSE <<x>> \o sorted

RECURSIVE SortByScoreDesc(_)
SortByScoreDesc(xs) ==
    IF xs = << >> THEN << >>
    ELSE InsertByScore(SortByScoreDesc(SubSeq(xs, 1, Len(xs) - 1)), xs[Len(xs)])

\* What the store's cap allows when the remaining quantity is ignored.
ToBuyUncapped(remaining, available) ==
    IF ~IsNone(available) THEN Val(available) ELSE remaining

\* to_buy of one store: the remaining quantity, capped by what is available.
ToBuy(remaining, available) ==
    IF ~IsNone(available) THEN Min(remaining, Val(available)) ELSE remaining

\* The greedy walk over the score-sorted stores (the "for store_data" loop).
RECURSIVE AllocateLoop(_, _, _)
AllocateLoop(scored, remaining, acc) ==
    IF scored = << >> \/ remaining <= 0
    THEN [allocations |-> acc, remaining_quantity |-> remaining]
    ELSE LET available == scored[1].available_quantity
             to_buy == ToBuy(remaining, available)
         IN  IF to_buy > 0
             THEN AllocateLoop(Tail(scored), remaining - to_buy,
                      Append(acc, [store_id |-> scored[1].store_id,
                                   quantity |-> to_buy,
                                   score |-> scored[1].score]))
             ELSE AllocateLoop(Tail(scored), remaining, acc)

\* One iteration of "for item in items"; product is None when the SKU has
\* no Product row; rows are the (mapping, store) rows read for all products.
AllocateItem(item, product, rows, staff_location) ==
    IF IsNone(product)
    THEN [item_id |-> item.item_id, total_quantity |-> item.quantity,
          allocations |-> << >>, remaining_quantity |-> item.quantity]
    ELSE LET p == Val(product) IN
         IF p.is_store_fixed /\ ~IsNone(p.fixed_store_id)
         THEN [item_id |-> item.item_id, total_quantity |-> item.quantity,
               allocations |-> << [store_id |-> Val(p.fixed_store_id),
                                   quantity |-> item.quantity,
                                   score |-> 100] >>,
               remaining_quantity |-> 0]
         ELSE LET candidates == SelectSeq(rows, LAMBDA r : r.product_id = p.product_id)
                  scored_stores ==
                      [i \in 1..Len(candidates) |->
                          [store_id |-> candidates[i].store_id,
                           score |-> calculate_store_score(candidates[i],
                                         StoreRow(candidates[i].store_id), staff_location),
                           available_quantity |-> get_available_quantity(candidates[i])]]
                  res == AllocateLoop(SortByScoreDesc(scored_stores), item.quantity, << >>)
              IN  [item_id |-> item.item_id, total_quantity |-> item.quantity,
                   allocations |-> res.allocations,
                   remaining_quantity |-> res.remaining_quantity]

\* items: sequence of [item_id, sku, quantity]; productsBySku: sku -> Optional
\* product; returns a function from the item ids that got an ItemAllocation.
allocate_quantities_to_stores(items, productsBySku, rows, staff_location) ==
    LET known == {i \in 1..Len(items) : ~IsNone(productsBySku[items[i].sku])}
    IN  IF known = {} THEN << >>
        ELSE LET ids == {items[i].item_id : i \in 1..Len(items)}
                 itemOf(id) == CHOOSE i \in 1..Len(items) : items[i].item_id = id
             IN  [id \in ids |->
                    AllocateItem(items[itemOf(id)], productsBySku[items[itemOf(id)].sku],
                                 rows, staff_location)]

\* Product master rows by SKU: "F" is store-fixed to store 1, "G" carries the
\* is_store_fixed flag without a fixed_store_id (PATCH .../store-fixed with
\* is_fixed=true and no store_id), "M" is an ordinary product, "U" has no
\* Product row.
Skus == {"F", "G", "M", "U"}
ProductsBySku ==
    [sku \in Skus |->
        CASE sku = "F" -> Some([product_id |-> 1, is_store_fixed |-> TRUE,
                                fixed_store_id |-> Some(1)])
          [] sku = "G" -> Some([product_id |-> 2, is_store_fixed |-> TRUE,
                                fixed_store_id |-> None])
          [] sku = "M" -> Some([product_id |-> 3, is_store_fixed |-> FALSE,
                                fixed_store_id |-> None])
          [] OTHER -> None]

\* ------------------------------------------------- the day's master data
StaffIds == {1, 2}

\* The Staff rows: the buyers StaffIds and supervisor 3.
AllStaff == StaffIds \cup {3}

StaffRow(s) ==
    [staff_id |-> s, role |-> IF s = 3 THEN "supervisor" ELSE "buyer",
     status |-> "idle", is_active |-> TRUE,
     max_daily_capacity |-> IF s = 1 THEN MaxCap ELSE MaxCap + 1,
     start_location |-> IF s = 1 THEN Some(<<2, 3>>) ELSE None]

\* (34.6937, 135.5023), the office / city centre, on the grid.
DefaultCenter == <<3, 2>>

\* Order 1 owns items 1 and 2, order 2 owns item 3.
OrderOf(i) == IF i = 3 THEN 2 ELSE 1

\* The (mapping, store) rows of active stores, as one read returns them.
RowM2 == [product_id |-> 3, store_id |-> 2, priority |-> Some(1),
          is_primary_store |-> FALSE, stock_status |-> "in_stock",
          current_available |-> Some(1), max_daily_quantity |-> None]
RowM3 == [product_id |-> 3, store_id |-> 3, priority |-> Some(1),
          is_primary_store |-> FALSE, stock_status |-> "in_stock",
          current_available |-> Some(1), max_daily_quantity |-> None]
RowG4 == [product_id |-> 2, store_id |-> 4, priority |-> Some(1),
          is_primary_store |-> FALSE, stock_status |-> "in_stock",
          current_available |-> None, max_daily_quantity |-> None]
RowF2 == [product_id |-> 1, store_id |-> 2, priority |-> Some(1),
          is_primary_store |-> TRUE, stock_status |-> "in_stock",
          current_available |-> None, max_daily_quantity |-> None]
RowReads == { <<RowM2, RowM3, RowG4, RowF2>> }

RECURSIVE SeqOfSet(_)
SeqOfSet(S) ==
    IF S = {} THEN << >>
    ELSE LET m == CHOOSE x \in S : \A y \in S : x <= y
         IN  <<m>> \o SeqOfSet(S \ {m})

Reverse(q) == [k \in 1..Len(q) |-> q[Len(q) + 1 - k]]

\* The order a SELECT without ORDER BY is taken to return ids in.
ReadOrders(S) == {SeqOfSet(S)}

\* ------------------------------------------------ staff assignment service
\* Rows of d.plis that belong to a PurchaseList of the staff member.
StaffLoad(d, s) ==
    Cardinality({k \in 1..Len(d.plis) : d.lists[d.plis[k].list_id].staff_id = s})

ListStores(d, list_id) ==
    {d.plis[k].store_id : k \in {x \in 1..Len(d.plis) : d.plis[x].list_id = list_id}}

\* The PurchaseList read for the staff member, None when there is none.
ListOfStaff(d, s) ==
    LET ls == {l \in 1..Len(d.lists) : d.lists[l].staff_id = s}
    IN  IF ls = {} THEN None ELSE Some(CHOOSE l \in ls : \A m \in ls : m <= l)

\* Mean of the coordinates of the stores that have some, as (sum, count).
CoordSum(stores) ==
    LET withC == {st \in stores : ~IsNone(StoreLatLng(st))}
        RECURSIVE Acc(_)
        Acc(S) == IF S = {} THEN <<0, 0>>
                  ELSE LET st == CHOOSE x \in S : TRUE
                           r == Acc(S \ {st})
                       IN  <<r[1] + Val(StoreLatLng(st))[1], r[2] + Val(StoreLatLng(st))[2]>>
    IN  [x |-> Acc(withC)[1], y |-> Acc(withC)[2], n |-> Cardinality(withC)]

\* Squared distance between two means, as a fraction num / den.
CentroidDist2(c, i) ==
    [num |-> (c.x * i.n - i.x * c.n) * (c.x * i.n - i.x * c.n)
             + (c.y * i.n - i.y * c.n) * (c.y * i.n - i.y * c.n),
     den |-> (c.n * i.n) * (c.n * i.n)]

FracLess(a, b) == a.num * b.den < b.num * a.den

\* A capacity check that lets every item through.
NeverOverCapacity(current_load, alloc_count, max_load) == FALSE

\* The capacity check of both assignment loops.
OverCapacity(current_load, alloc_count, max_load) ==
    current_load + alloc_count > max_load

\* An item filter that forgets the item status.
IsUnbundledItem(d, i) == ~d.items[i].is_bundle

\* The WHERE clause both assignment services read their items with.
IsPendingItem(d, i) ==
    d.items[i].item_status = "pending" /\ ~d.items[i].is_bundle

\* best is None (best_score = inf) or Some([staff_id, score]).
RECURSIVE FindBestLoop(_, _, _, _, _)
FindBestLoop(staffSeq, item_centroid, item_store_ids, alloc_count, st) ==
    IF staffSeq = << >> THEN st.best
    ELSE LET s == staffSeq[1]
             rest == Tail(staffSeq)
         IN  IF OverCapacity(st.workload[s], alloc_count, st.capacity[s])
             THEN FindBestLoop(rest, item_centroid, item_store_ids, alloc_count, st)
             ELSE LET d2 == CentroidDist2(st.centroids[s], item_centroid)
                      overlap == st.store_sets[s] \cap item_store_ids
                      \* dist *= 0.5 on the distance is / 4 on its square
                      score == IF overlap # {} THEN [num |-> d2.num, den |-> 4 * d2.den]
                               ELSE d2
                  IN  IF IsNone(st.best) \/ FracLess(score, Val(st.best).score)
                      THEN With([st EXCEPT !.best = Some([staff_id |-> s, score |-> score])],
                               LAMBDA st1 : FindBestLoop(rest, item_centroid,
                                                item_store_ids, alloc_count, st1))
                      ELSE FindBestLoop(rest, item_centroid, item_store_ids, alloc_count, st)

\* The first buyer, in staff_id order, that has the capacity.
_find_first_staff(available_staff, item_store_ids, alloc_count, st) ==
    LET ok == {k \in 1..Len(available_staff) :
                  ~OverCapacity(st.workload[available_staff[k]], alloc_count,
                                st.capacity[available_staff[k]])}
    IN  IF ok = {} THEN None
        ELSE Some(available_staff[CHOOSE k \in ok : \A m \in ok : k <= m])

_find_best_staff(available_staff, item_store_ids, alloc_count, st) ==
    LET cs == CoordSum(item_store_ids)
        item_centroid == IF cs.n = 0
                         THEN [x |-> DefaultCenter[1], y |-> DefaultCenter[2], n |-> 1]
                         ELSE cs
        best == FindBestLoop(available_staff, item_centroid, item_store_ids, alloc_count,
                             [st EXCEPT !.best = None])
    IN  IF IsNone(best) THEN None ELSE Some(Val(best).staff_id)

_update_staff_centroid(st, sid, new_store_ids) ==
    LET set == st.store_sets[sid] \cup new_store_ids
        cs == CoordSum(set)
    IN  [st EXCEPT !.store_sets[sid] = set,
                   !.centroids[sid] = IF cs.n > 0 THEN cs ELSE @]

\* PurchaseListItems of one item, one per store allocation.
NewListItems(list_id, item_id, allocations, current_load) ==
    [k \in 1..Len(allocations) |->
        [list_id |-> list_id, item_id |-> item_id,
         store_id |-> allocations[k].store_id,
         quantity_to_purchase |-> allocations[k].quantity,
         sequence_order |-> current_load + k,
         purchase_status |-> "pending"]]

AllocStoreIds(allocations) == {allocations[k].store_id : k \in 1..Len(allocations)}

\* The "for item in pending_items" loop of auto_assign_daily_orders; st holds
\* the session's pending objects and the local dictionaries.
RECURSIVE AssignLoop(_, _, _, _)
AssignLoop(pending_items, item_allocations, available_staff, st) ==
    IF pending_items = << >> THEN st
    ELSE LET item == pending_items[1]
             rest == Tail(pending_items)
         IN  IF item.item_id \notin DOMAIN item_allocations
                \/ item_allocations[item.item_id].allocations = << >>
             THEN AssignLoop(rest, item_allocations, available_staff, st)
             ELSE LET allocation == item_allocations[item.item_id]
                      allocations_count == Len(allocation.allocations)
                      item_store_ids == AllocStoreIds(allocation.allocations)
                      best_sid == _find_best_staff(available_staff, item_store_ids,
                                                   allocations_count, st)
                  IN  IF IsNone(best_sid)
                      THEN AssignLoop(rest, item_allocations, available_staff, st)
                      ELSE LET sid == Val(best_sid)
                               list_id == st.staff_lists[sid]
                               st1 == [st EXCEPT
                                   !.plis = @ \o NewListItems(list_id, item.item_id,
                                                allocation.allocations, st.workload[sid]),
                                   !.items[item.item_id].item_status = "assigned",
                                   !.workload[sid] = @ + allocations_count,
                                   !.lists[list_id].total_items = @ + allocations_count]
                           IN  With(_update_staff_centroid(st1, sid, item_store_ids),
                                    LAMBDA st2 : AssignLoop(rest, item_allocations,
                                                            available_staff, st2))

NewList(s) == [staff_id |-> s, list_status |-> "draft", total_items |-> 0,
               total_stores |-> 0]

\* Get-or-create of the PurchaseLists of the given staff, in staff order.
RECURSIVE EnsureLists(_, _)
EnsureLists(lists, staffSeq) ==
    IF staffSeq = << >> THEN lists
    ELSE IF \E l \in 1..Len(lists) : lists[l].staff_id = staffSeq[1]
         THEN EnsureLists(lists, Tail(staffSeq))
         ELSE EnsureLists(Append(lists, NewList(staffSeq[1])), Tail(staffSeq))

ItemRecs(d, ids) ==
    [k \in 1..Len(ids) |-> [item_id |-> ids[k], sku |-> d.items[ids[k]].sku,
                            quantity |-> d.items[ids[k]].quantity]]

\* Remaining quantities of the ItemAllocations of one allocate call.
Reported(reported, item_allocations) ==
    [i \in DOMAIN reported |-> IF i \in DOMAIN item_allocations
                     THEN Some(item_allocations[i].remaining_quantity)
                     ELSE reported[i]]

\* auto_assign_daily_orders up to its final flush.  itemOrder is the order
\* the pending items are read in, rows the mapping rows as read.  The two
\* count queries at the end run with autoflush off, before the flush: they
\* see the rows of d, not the session's pending changes.
auto_assign_daily_orders(d, itemOrder, rows) ==
    LET available_staff ==
            SeqOfSet({s \in StaffIds : /\ StaffRow(s).is_active
                                       /\ StaffRow(s).role = "buyer"
                                       /\ StaffRow(s).status # "off_duty"})
        pending_orders == {o \in DOMAIN d.orders : d.orders[o] = "pending"}
        pending_items == SelectSeq(itemOrder,
                            LAMBDA i : /\ OrderOf(i) \in pending_orders
                                       /\ IsPendingItem(d, i))
    IN  IF available_staff = << >> \/ pending_orders = {} \/ pending_items = << >>
        THEN d
        ELSE
        With(allocate_quantities_to_stores(ItemRecs(d, pending_items),
                                           ProductsBySku, rows, None),
        LAMBDA item_allocations :
        LET lists1 == EnsureLists(d.lists, available_staff)
            st0 == [plis |-> d.plis, items |-> d.items, lists |-> lists1,
                    workload |-> [s \in StaffIds |-> StaffLoad(d, s)],
                    capacity |-> [s \in StaffIds |-> StaffRow(s).max_daily_capacity],
                    staff_lists |-> [s \in StaffIds |->
                        IF IsNone(ListOfStaff([lists |-> lists1], s)) THEN 0
                        ELSE Val(ListOfStaff([lists |-> lists1], s))],
                    store_sets |-> [s \in StaffIds |-> {}],
                    centroids |-> [s \in StaffIds |->
                        LET p == IF IsNone(StaffRow(s).start_location) THEN DefaultCenter
                                 ELSE Val(StaffRow(s).start_location)
                        IN  [x |-> p[1], y |-> p[2], n |-> 1]],
                    best |-> None]
            orders1 == [o \in DOMAIN d.orders |->
                IF o \in pending_orders
                   /\ {i \in DOMAIN d.items :
                          OrderOf(i) = o /\ d.items[i].item_status = "pending"} = {}
                THEN "assigned" ELSE d.orders[o]]
        IN  With(AssignLoop(ItemRecs(d, pending_items), item_allocations,
                            available_staff, st0),
            LAMBDA st :
            LET lists2 == [l \in 1..Len(st.lists) |->
                    IF \E s \in StaffIds : StaffRow(s).status # "off_duty"
                            /\ StaffRow(s).is_active /\ StaffRow(s).role = "buyer"
                            /\ st.staff_lists[s] = l
                    THEN [st.lists[l] EXCEPT
                             !.total_stores = Cardinality(ListStores(d, l))]
                    ELSE st.lists[l]]
            IN  [d EXCEPT !.plis = st.plis, !.items = st.items, !.lists = lists2,
                          !.orders = orders1,
                          !.reported = Reported(d.reported, item_allocations)]))

\* scalar_one_or_none() raises MultipleResultsFound on more than one row.
MultipleLists(d, s) ==
    Cardinality({l \in 1..Len(d.lists) : d.lists[l].staff_id = s}) > 1

\* The "for item in items" loop of assign_to_specific_staff.
RECURSIVE SpecificLoop(_, _, _, _, _, _)
SpecificLoop(items, item_allocations, list_id, current_load, available_capacity, st) ==
    IF items = << >> THEN st
    ELSE LET item == items[1]
             rest == Tail(items)
         IN  IF item.item_id \notin DOMAIN item_allocations
                \/ item_allocations[item.item_id].allocations = << >>
             THEN SpecificLoop(rest, item_allocations, list_id, current_load,
                               available_capacity, st)
             ELSE LET allocation == item_allocations[item.item_id]
                      allocations_count == Len(allocation.allocations)
                  IN  IF OverCapacity(st.tasks_added, allocations_count, available_capacity)
                      THEN SpecificLoop(rest, item_allocations, list_id, current_load,
                                        available_capacity, st)
                      ELSE With([st EXCEPT
                                   !.plis = @ \o NewListItems(list_id, item.item_id,
                                                allocation.allocations,
                                                current_load + st.tasks_added),
                                   !.items[item.item_id].item_status = "assigned",
                                   !.lists[list_id].total_items = @ + allocations_count,
                                   !.tasks_added = @ + allocations_count],
                               LAMBDA st1 : SpecificLoop(rest, item_allocations, list_id,
                                                current_load, available_capacity, st1))

\* assign_to_specific_staff up to its final flush; an exception leaves d as
\* it is (the request's transaction is rolled back).
assign_to_specific_staff(d, staff_id, itemOrder, rows) ==
    IF staff_id \notin AllStaff THEN d
    ELSE
    LET staff == StaffRow(staff_id)
        current_load == StaffLoad(d, staff_id)
        available_capacity == staff.max_daily_capacity - current_load
        items == SelectSeq(itemOrder,
                    LAMBDA i : IsPendingItem(d, i))
    IN  IF available_capacity <= 0 \/ items = << >> \/ MultipleLists(d, staff_id)
        THEN d
        ELSE
        LET lists1 == EnsureLists(d.lists, <<staff_id>>)
            list_id == Val(ListOfStaff([lists |-> lists1], staff_id))
        IN  With(allocate_quantities_to_stores(ItemRecs(d, items), ProductsBySku, rows,
                                               staff.start_location),
            LAMBDA item_allocations :
            With(SpecificLoop(ItemRecs(d, items), item_allocations, list_id,
                              current_load, available_capacity,
                              [plis |-> d.plis, items |-> d.items, lists |-> lists1,
                               tasks_added |-> 0]),
            LAMBDA st :
            [d EXCEPT !.plis = st.plis, !.items = st.items,
                      !.lists = [st.lists EXCEPT ![list_id].total_stores =
                                     Cardinality(ListStores(d, list_id))],
                      !.reported = Reported(d.reported, item_allocations)]))

\* ------------------------------------------------ route optimization service
AVERAGE_SPEED_KMH == 25
SHOPPING_TIME_BASE_PER_STORE == 5
SHOPPING_TIME_PER_ITEM == 2
\* "10:00", in minutes after midnight
DEFAULT_ROUTE_START_TIME == 600

\* Opening time of the store on the target weekday, minutes after midnight.
StoreOpens(s) ==
    CASE s = 2 -> Some(540)
      [] s = 3 -> Some(660)
      [] OTHER -> None

\* StoreDistanceMatrix rows (from, to) -> 0.01 km; other pairs are absent.
DistanceMatrix ==
    (<<2, 3>> :> 480) @@ (<<3, 2>> :> 480) @@ (<<1, 2>> :> 310) @@ (<<2, 1>> :> 310)

_fetch_distance_cache(store_ids) ==
    [pr \in {x \in DOMAIN DistanceMatrix : x[1] \in store_ids /\ x[2] \in store_ids}
        |-> DistanceMatrix[pr]]

\* ids are Optional store ids (None for the start point).
_get_distance(p1, p2, store1_id, store2_id, distance_cache) ==
    IF /\ ~IsNone(store1_id) /\ ~IsNone(store2_id)
       /\ <<Val(store1_id), Val(store2_id)>> \in DOMAIN distance_cache
    THEN distance_cache[<<Val(store1_id), Val(store2_id)>>]
    ELSE calculate_distance(p1, p2)

\* int(dist / AVERAGE_SPEED_KMH * 60) for a distance in 0.01 km
TravelMinutes(dist) == IF dist > 0 THEN (dist * 60) \div (AVERAGE_SPEED_KMH * 100) ELSE 0

RECURSIVE NearestIdx(_, _, _, _, _, _, _)
NearestIdx(remaining, i, cur, cur_id, distance_cache, nearest_idx, nearest_dist) ==
    IF i > Len(remaining) THEN nearest_idx
    ELSE LET dist == _get_distance(cur, Val(remaining[i].latlng), cur_id,
                                   Some(remaining[i].store_id), distance_cache)
         IN  IF IsNone(nearest_dist) \/ dist < Val(nearest_dist)
             THEN NearestIdx(remaining, i + 1, cur, cur_id, distance_cache, i, Some(dist))
             ELSE NearestIdx(remaining, i + 1, cur, cur_id, distance_cache,
                             nearest_idx, nearest_dist)

RemoveAt(seq, i) == SubSeq(seq, 1, i - 1) \o SubSeq(seq, i + 1, Len(seq))

RECURSIVE NearestLoop(_, _, _, _, _)
NearestLoop(remaining, cur, cur_id, distance_cache, result) ==
    IF remaining = << >> THEN result
    ELSE LET idx == NearestIdx(remaining, 1, cur, cur_id, distance_cache, 1, None)
             store == remaining[idx]
         IN  With(RemoveAt(remaining, idx),
                  LAMBDA rest : With(Append(result, store),
                      LAMBDA result1 : NearestLoop(rest, Val(store.latlng),
                                           Some(store.store_id), distance_cache, result1)))

_nearest_neighbor(start_point, stores, distance_cache) ==
    NearestLoop(stores, start_point, None, distance_cache, << >>)

ReverseSeg(seq, i, j) ==
    [k \in 1..Len(seq) |-> IF k >= i /\ k <= j THEN seq[i + j - k] ELSE seq[k]]

\* One (i, j) step of the double loop; positions are 1-based, so the code's
\* j in range(i + 2, len) is j from i + 2 to Len(best).
TwoOptStep(start_point, best, i, j, distance_cache) ==
    LET a == IF i = 1 THEN [p |-> start_point, id |-> None]
             ELSE [p |-> Val(best[i - 1].latlng), id |-> Some(best[i - 1].store_id)]
        b == [p |-> Val(best[i].latlng), id |-> Some(best[i].store_id)]
        c == [p |-> Val(best[j].latlng), id |-> Some(best[j].store_id)]
        hasD == j + 1 <= Len(best)
        dd == [p |-> Val(best[j + 1].latlng), id |-> Some(best[j + 1].store_id)]
        current_cost == _get_distance(a.p, b.p, a.id, b.id, distance_cache)
            + (IF hasD THEN _get_distance(c.p, dd.p, c.id, dd.id, distance_cache) ELSE 0)
        new_cost == _get_distance(a.p, c.p, a.id, c.id, distance_cache)
            + (IF hasD THEN _get_distance(b.p, dd.p, b.id, dd.id, distance_cache) ELSE 0)
    IN  \* new_cost < current_cost - 0.01
        IF new_cost < current_cost - 1
        THEN [best |-> ReverseSeg(best, i, j), improved |-> TRUE]
        ELSE [best |-> best, improved |-> FALSE]

RECURSIVE TwoOptPass(_, _, _, _, _, _)
TwoOptPass(start_point, best, i, j, improved, distance_cache) ==
    IF i > Len(best) - 1 THEN [best |-> best, improved |-> improved]
    ELSE IF j > Len(best)
         THEN TwoOptPass(start_point, best, i + 1, i + 3, improved, distance_cache)
         ELSE With(TwoOptStep(start_point, best, i, j, distance_cache),
                   LAMBDA r : TwoOptPass(start_point, r.best, i, j + 1,
                                         improved \/ r.improved, distance_cache))

max_iterations == 50

\* One pass of the double loop, whether or not it improved.
TwoOptOnePass(start_point, best, iterations, distance_cache) ==
    TwoOptPass(start_point, best, 1, 3, FALSE, distance_cache).best

RECURSIVE TwoOptWhile(_, _, _, _)
TwoOptWhile(start_point, best, iterations, distance_cache) ==
    IF iterations >= max_iterations THEN best
    ELSE With(TwoOptPass(start_point, best, 1, 3, FALSE, distance_cache),
              LAMBDA r : IF r.improved
                         THEN TwoOptWhile(start_point, r.best, iterations + 1,
                                          distance_cache)
                         ELSE r.best)

_two_opt_improve(start_point, route, distance_cache) ==
    IF Len(route) < 3 THEN route
    ELSE TwoOptWhile(start_point, route, 0, distance_cache)

_get_opening_time(opening_hours) == opening_hours

\* An adjustment that puts every arrival at the opening time.
ArriveAtOpening(arrival_time, opening_hours) ==
    LET opens_at == _get_opening_time(opening_hours)
    IN  IF ~IsNone(opens_at) THEN Val(opens_at) ELSE arrival_time

\* An adjustment that never waits for the store to open.
ArriveWithoutWaiting(arrival_time, opening_hours) == arrival_time

_adjust_for_opening_hours(arrival_time, opening_hours) ==
    LET opens_at == _get_opening_time(opening_hours)
    IN  IF ~IsNone(opens_at) /\ arrival_time < Val(opens_at) THEN Val(opens_at)
        ELSE arrival_time

Qty(store) == IF store.total_quantity # 0 THEN store.total_quantity ELSE store.items_count

SwapAt(seq, i) == [seq EXCEPT ![i] = seq[i + 1], ![i + 1] = seq[i]]

\* The swap test of one pass of the while loop with i < len(result) - 1,
\* without the test that the next store is already open.
ReorderSwapsWhenWaiting(result, i, current_time, prev, prev_id, distance_cache) ==
    LET store == result[i]
        hasC == ~IsNone(store.latlng)
        dist == IF hasC THEN _get_distance(prev, Val(store.latlng), prev_id,
                                           Some(store.store_id), distance_cache)
                ELSE 0
        arrival == IF hasC THEN current_time + TravelMinutes(dist) ELSE current_time
        opens_at == _get_opening_time(store.opening_hours)
        next_store == result[i + 1]
    IN  /\ ~IsNone(opens_at) /\ arrival < Val(opens_at)
        /\ Val(opens_at) - arrival > 10
        /\ _get_distance(prev, Val(next_store.latlng), prev_id,
                         Some(next_store.store_id), distance_cache)
           - _get_distance(prev, Val(store.latlng), prev_id,
                           Some(store.store_id), distance_cache) < 200

\* The swap test of one pass of the while loop with i < len(result) - 1:
\* the store at i is closed for more than 10 minutes on arrival, the next
\* store has no opening time or is open by then, and the detour is under 2 km.
ReorderSwaps(result, i, current_time, prev, prev_id, distance_cache) ==
    LET store == result[i]
        hasC == ~IsNone(store.latlng)
        dist == IF hasC THEN _get_distance(prev, Val(store.latlng), prev_id,
                                           Some(store.store_id), distance_cache)
                ELSE 0
        arrival == IF hasC THEN current_time + TravelMinutes(dist) ELSE current_time
        opens_at == _get_opening_time(store.opening_hours)
        next_store == result[i + 1]
        next_opening == _get_opening_time(next_store.opening_hours)
    IN  /\ ~IsNone(opens_at) /\ arrival < Val(opens_at)
        /\ Val(opens_at) - arrival > 10
        /\ (IF IsNone(next_opening) THEN TRUE ELSE arrival >= Val(next_opening))
        /\ _get_distance(prev, Val(next_store.latlng), prev_id,
                         Some(next_store.store_id), distance_cache)
           - _get_distance(prev, Val(store.latlng), prev_id,
                           Some(store.store_id), distance_cache) < 200

\* The simulation clock after the stop at store: travel, wait for the
\* opening, shopping.
ReorderClock(store, current_time, prev, prev_id, distance_cache) ==
    LET hasC == ~IsNone(store.latlng)
        dist == IF hasC THEN _get_distance(prev, Val(store.latlng), prev_id,
                                           Some(store.store_id), distance_cache)
                ELSE 0
        t1 == IF hasC THEN current_time + TravelMinutes(dist) ELSE current_time
        t2 == _adjust_for_opening_hours(t1, store.opening_hours)
    IN  t2 + SHOPPING_TIME_BASE_PER_STORE + Qty(store) * SHOPPING_TIME_PER_ITEM

\* The while loop of _reorder_for_opening_hours; i is 1-based.
RECURSIVE ReorderLoop(_, _, _, _, _, _)
ReorderLoop(result, i, current_time, prev, prev_id, distance_cache) ==
    IF i >= Len(result) THEN result
    ELSE
    LET store == result[i]
        hasC == ~IsNone(store.latlng)
    IN  IF ReorderSwaps(result, i, current_time, prev, prev_id, distance_cache)
        THEN With(SwapAt(result, i),
                  LAMBDA swapped : ReorderLoop(swapped, i, current_time, prev, prev_id,
                                               distance_cache))
        ELSE With(ReorderClock(store, current_time, prev, prev_id, distance_cache),
                  LAMBDA now :
                     ReorderLoop(result, i + 1, now,
                                 IF hasC THEN Val(store.latlng) ELSE prev,
                                 IF hasC THEN Some(store.store_id) ELSE prev_id,
                                 distance_cache))

_reorder_for_opening_hours(start_point, route, distance_cache) ==
    IF Len(route) < 2 THEN route
    ELSE ReorderLoop(route, 1, DEFAULT_ROUTE_START_TIME, start_point, None, distance_cache)

\* The same pipeline with the stores without coordinates put first.
_optimize_route_coordless_first(start_point, stores, distance_cache, optimization_priority) ==
    IF Len(stores) <= 1 THEN stores
    ELSE LET stores_with_coords == SelectSeq(stores, LAMBDA x : ~IsNone(x.latlng))
             stores_without_coords == SelectSeq(stores, LAMBDA x : IsNone(x.latlng))
         IN  IF stores_with_coords = << >> THEN stores
             ELSE With(_nearest_neighbor(start_point, stores_with_coords, distance_cache),
                  LAMBDA nn_route :
                  With(_two_opt_improve(start_point, nn_route, distance_cache),
                  LAMBDA improved :
                      LET reordered == IF optimization_priority = "speed"
                                       THEN _reorder_for_opening_hours(start_point, improved,
                                                                       distance_cache)
                                       ELSE improved
                      IN  stores_without_coords \o reordered))

_optimize_route(start_point, stores, distance_cache, optimization_priority) ==
    IF Len(stores) <= 1 THEN stores
    ELSE LET stores_with_coords == SelectSeq(stores, LAMBDA x : ~IsNone(x.latlng))
             stores_without_coords == SelectSeq(stores, LAMBDA x : IsNone(x.latlng))
         IN  IF stores_with_coords = << >> THEN stores
             ELSE With(_nearest_neighbor(start_point, stores_with_coords, distance_cache),
                  LAMBDA nn_route :
                  With(_two_opt_improve(start_point, nn_route, distance_cache),
                  LAMBDA improved :
                      LET reordered == IF optimization_priority = "speed"
                                       THEN _reorder_for_opening_hours(start_point, improved,
                                                                       distance_cache)
                                       ELSE improved
                      IN  reordered \o stores_without_coords))

\* The rows of every PurchaseList.
AllListItemIds(d, list_id) == 1..Len(d.plis)

\* Rows of the PurchaseList, as positions of d.plis.
ListItemIds(d, list_id) == {k \in 1..Len(d.plis) : d.plis[k].list_id = list_id}

RECURSIVE SumOver(_, _)
SumOver(S, f) ==
    IF S = {} THEN 0
    ELSE LET x == CHOOSE y \in S : TRUE IN f[x] + SumOver(S \ {x}, f)

\* The (store, items_count, total_quantity, opening_hours) rows of the list.
StoreTuples(d, list_id) ==
    LET sts == SeqOfSet(ListStores(d, list_id))
    IN  [k \in 1..Len(sts) |->
            LET rowsOf == {x \in ListItemIds(d, list_id) : d.plis[x].store_id = sts[k]}
            IN  [store_id |-> sts[k], latlng |-> StoreLatLng(sts[k]),
                 items_count |-> Cardinality(rowsOf),
                 total_quantity |-> SumOver(rowsOf,
                     [x \in rowsOf |-> d.plis[x].quantity_to_purchase]),
                 opening_hours |-> StoreOpens(sts[k])]]

ItemsByStore(d, list_id, store_id) ==
    LET ks == SeqOfSet({x \in ListItemIds(d, list_id) : d.plis[x].store_id = store_id})
    IN  [k \in 1..Len(ks) |-> d.plis[ks[k]].item_id]

\* The "for seq, ... in enumerate(optimized_order)" loop: the RouteStops and
\* the totals.  acc = [stops, total_distance, estimated_time, current_time,
\* prev, prev_id].
RECURSIVE StopsLoop(_, _, _, _, _, _, _)
StopsLoop(d, list_id, route_id, optimized_order, seq, distance_cache, acc) ==
    IF seq > Len(optimized_order) THEN acc
    ELSE
    LET st == optimized_order[seq]
        hasC == ~IsNone(st.latlng)
        dist == IF hasC THEN _get_distance(acc.prev, Val(st.latlng), acc.prev_id,
                                           Some(st.store_id), distance_cache)
                ELSE 0
        travel_time == IF hasC THEN TravelMinutes(dist) ELSE 0
        t1 == acc.current_time + travel_time
        adjusted_time == _adjust_for_opening_hours(t1, st.opening_hours)
        wait_minutes == IF adjusted_time > t1 THEN adjusted_time - t1 ELSE 0
        stop == [stop_id |-> d.next_stop_id + seq - 1, route_id |-> route_id,
                 store_id |-> st.store_id, stop_sequence |-> seq,
                 estimated_arrival |-> adjusted_time,
                 items_to_purchase |-> ItemsByStore(d, list_id, st.store_id),
                 items_count |-> Qty(st), stop_status |-> "pending"]
        shopping_time == SHOPPING_TIME_BASE_PER_STORE + Qty(st) * SHOPPING_TIME_PER_ITEM
    IN  With([stops |-> acc.stops \cup {stop},
              total_distance |-> acc.total_distance + dist,
              estimated_time |-> acc.estimated_time + wait_minutes + shopping_time
                                 + travel_time,
              current_time |-> adjusted_time + shopping_time,
              prev |-> IF hasC THEN Val(st.latlng) ELSE acc.prev,
              prev_id |-> IF hasC THEN Some(st.store_id) ELSE acc.prev_id],
             LAMBDA acc1 : StopsLoop(d, list_id, route_id, optimized_order, seq + 1,
                                     distance_cache, acc1))

\* A lookup that never finds the Route of a PurchaseList.
NoRouteOfList(d, list_id) == {}

\* select(Route).where(Route.list_id == purchase_list.list_id)
RoutesOfList(d, list_id) == {r \in 1..Len(d.routes) : d.routes[r].list_id = list_id}

\* generate_route_for_staff up to its flush.  Returns the session state, the
\* route_id (None when nothing was generated) and whether it raised.
generate_route_for_staff(d, staff_id, optimization_priority) ==
    IF staff_id \notin AllStaff THEN [d |-> d, route_id |-> None, raised |-> FALSE]
    ELSE IF MultipleLists(d, staff_id) THEN [d |-> d, route_id |-> None, raised |-> TRUE]
    ELSE IF IsNone(ListOfStaff(d, staff_id))
            \/ d.lists[Val(ListOfStaff(d, staff_id))].total_items = 0
            \/ ListStores(d, Val(ListOfStaff(d, staff_id))) = {}
         THEN [d |-> d, route_id |-> None, raised |-> FALSE]
    ELSE
    LET list_id == Val(ListOfStaff(d, staff_id))
        staff == StaffRow(staff_id)
        existing == RoutesOfList(d, list_id)
    IN  IF Cardinality(existing) > 1 THEN [d |-> d, route_id |-> None, raised |-> TRUE]
        ELSE
        LET route_id == IF existing # {} THEN CHOOSE r \in existing : TRUE
                        ELSE Len(d.routes) + 1
            routes1 == IF existing # {}
                       THEN [d.routes EXCEPT ![route_id].route_status = "not_started"]
                       ELSE Append(d.routes,
                                [list_id |-> list_id, staff_id |-> staff_id,
                                 route_status |-> "not_started",
                                 total_distance_km |-> 0, estimated_time_minutes |-> 0])
            kept == {s \in d.stops : s.route_id # route_id}
            start == IF IsNone(staff.start_location) THEN DefaultCenter
                     ELSE Val(staff.start_location)
            stores == StoreTuples(d, list_id)
            distance_cache == _fetch_distance_cache({stores[k].store_id : k \in 1..Len(stores)})
            listOrders == {OrderOf(d.plis[k].item_id) : k \in ListItemIds(d, list_id)}
        IN  With(_optimize_route(start, stores, distance_cache, optimization_priority),
            LAMBDA optimized_order :
            With(StopsLoop(d, list_id, route_id, optimized_order, 1, distance_cache,
                     [stops |-> {}, total_distance |-> 0, estimated_time |-> 0,
                      current_time |-> DEFAULT_ROUTE_START_TIME,
                      prev |-> start, prev_id |-> None]),
            LAMBDA acc :
            [d |-> [d EXCEPT
                 !.routes = [routes1 EXCEPT
                                ![route_id].total_distance_km = acc.total_distance,
                                ![route_id].estimated_time_minutes = acc.estimated_time],
                 !.stops = kept \cup acc.stops,
                 !.next_stop_id = @ + Len(optimized_order),
                 !.lists[list_id].list_status = "assigned",
                 !.orders = [o \in DOMAIN d.orders |->
                                IF o \in listOrders /\ d.orders[o] = "assigned"
                                THEN "in_progress" ELSE d.orders[o]]],
             route_id |-> Some(route_id), raised |-> FALSE]))

\* generate_all_routes_for_date: one generate_route_for_staff per PurchaseList
\* row with total_items > 0 of an active buyer, in list order.
RECURSIVE GenerateAllLoop(_, _, _)
GenerateAllLoop(list_ids, optimization_priority, acc) ==
    IF list_ids = << >> \/ acc.raised THEN acc
    ELSE With(generate_route_for_staff(acc.d, acc.d.lists[list_ids[1]].staff_id,
                                       optimization_priority),
              LAMBDA r :
                With([d |-> r.d,
                      route_ids |-> IF IsNone(r.route_id) THEN acc.route_ids
                                    ELSE Append(acc.route_ids, Val(r.route_id)),
                      raised |-> r.raised],
                     LAMBDA acc1 : GenerateAllLoop(Tail(list_ids),
                                                   optimization_priority, acc1)))

generate_all_routes_for_date(d, optimization_priority) ==
    LET purchase_lists ==
            SeqOfSet({l \in 1..Len(d.lists) :
                        /\ d.lists[l].total_items > 0
                        /\ d.lists[l].staff_id \in StaffIds
                        /\ StaffRow(d.lists[l].staff_id).role = "buyer"
                        /\ StaffRow(d.lists[l].staff_id).is_active})
    IN  GenerateAllLoop(purchase_lists, optimization_priority,
                        [d |-> d, route_ids |-> << >>, raised |-> FALSE])

\* ----------------------------------------------------- execution tracker
StopOf(d, route_id, stop_id) ==
    {s \in d.stops : s.route_id = route_id /\ s.stop_id = stop_id}

\* The 403 check of update_stop_controller and reorder_route_stops_controller
\* is skipped when no current_user_id is passed or the staff row is absent.
StopUpdateForbidden(d, route_id, current_user_id) ==
    /\ ~IsNone(current_user_id)
    /\ Val(current_user_id) \in AllStaff
    /\ ~(d.routes[route_id].staff_id = Val(current_user_id))
    /\ StaffRow(Val(current_user_id)).role \notin {"supervisor", "admin"}

\* Order status after the items of a completed stop were set to purchased.
OrdersAfterStop(d, items1, implicated) ==
    [o \in DOMAIN d.orders |->
        IF o \notin implicated THEN d.orders[o]
        ELSE LET all_items == {i \in DOMAIN items1 : OrderOf(i) = o}
                 purchased_count ==
                     Cardinality({i \in all_items : items1[i].item_status = "purchased"})
             IN  IF all_items = {} THEN d.orders[o]
                 ELSE IF purchased_count = Cardinality(all_items) THEN "completed"
                 ELSE IF purchased_count > 0 THEN "partially_completed"
                 ELSE d.orders[o]]

\* update_stop_controller up to its flush; a 404 / 403 leaves d as it is.
update_stop_controller(d, route_id, stop_id, new_status, current_user_id) ==
    IF StopOf(d, route_id, stop_id) = {} THEN d
    ELSE IF StopUpdateForbidden(d, route_id, current_user_id) THEN d
    ELSE
    LET stop == CHOOSE s \in StopOf(d, route_id, stop_id) : TRUE
        route == d.routes[route_id]
        stops1 == (d.stops \ {stop}) \cup {[stop EXCEPT !.stop_status = new_status]}
        cascade == new_status = "completed" /\ stop.stop_status # "completed"
        purchase_items == {k \in ListItemIds(d, route.list_id) :
                              d.plis[k].store_id = stop.store_id}
        touched == {d.plis[k].item_id : k \in purchase_items} \cap DOMAIN d.items
        items1 == IF cascade
                  THEN [i \in DOMAIN d.items |->
                           IF i \in touched
                           THEN [d.items[i] EXCEPT !.item_status = "purchased"]
                           ELSE d.items[i]]
                  ELSE d.items
        orders1 == IF cascade
                   THEN OrdersAfterStop(d, items1, {OrderOf(i) : i \in touched})
                   ELSE d.orders
        all_stops == {s \in stops1 : s.route_id = route_id}
        routes1 == IF /\ new_status = "completed"
                      /\ \A s \in all_stops : s.stop_status = "completed"
                   THEN [d.routes EXCEPT ![route_id].route_status = "completed"]
                   ELSE d.routes
    IN  [d EXCEPT !.stops = stops1, !.items = items1, !.orders = orders1,
                  !.routes = routes1]

\* Final stop_sequence of each stop: the last position it is listed at.
RECURSIVE ReorderSeqs(_, _, _, _)
ReorderSeqs(stops, route_id, stop_ids, new_sequence) ==
    IF new_sequence > Len(stop_ids) THEN stops
    ELSE ReorderSeqs({IF s.route_id = route_id /\ s.stop_id = stop_ids[new_sequence]
                      THEN [s EXCEPT !.stop_sequence = new_sequence] ELSE s : s \in stops},
                     route_id, stop_ids, new_sequence + 1)

\* reorder_route_stops_controller; a 404 / 403 / 400 leaves d as it is.
reorder_route_stops_controller(d, route_id, stop_ids, current_user) ==
    IF route_id \notin 1..Len(d.routes) THEN d
    ELSE
    LET route == d.routes[route_id]
        role == StaffRow(current_user).role
        allowed == \/ role = "admin"
                   \/ role = "supervisor"
                   \/ (role = "buyer" /\ route.staff_id = current_user)
        existing_stop_ids == {s.stop_id : s \in {x \in d.stops : x.route_id = route_id}}
        provided_stop_ids == {stop_ids[k] : k \in 1..Len(stop_ids)}
    IN  IF ~allowed \/ existing_stop_ids # provided_stop_ids THEN d
        ELSE [d EXCEPT !.stops = ReorderSeqs(d.stops, route_id, stop_ids, 1)]

\* --------------------------------------------------------- plan orchestrator
\* Step 3 of generate_all_routes: start the routes just generated.
StartRoutes(d, route_ids) ==
    [d EXCEPT !.routes =
        [r \in 1..Len(d.routes) |->
            IF (\E k \in 1..Len(route_ids) : route_ids[k] = r)
               /\ d.routes[r].route_status = "not_started"
            THEN [d.routes[r] EXCEPT !.route_status = "in_progress"]
            ELSE d.routes[r]]]

\* POST /generate-routes as one unit of work: the state it commits, or d when
\* a stage raised and get_db rolled the session back.
generate_all_routes(d, itemOrder, rows) ==
    LET d1 == auto_assign_daily_orders(d, itemOrder, rows)
        r == generate_all_routes_for_date(d1, "speed")
    IN  IF r.raised THEN d ELSE StartRoutes(r.d, r.route_ids)

\* create_order: order 2 arrives with its one item, both pending.
create_order(d, order_id, item_id, sku, quantity) ==
    [d EXCEPT !.orders = (order_id :> "pending") @@ @,
              !.items = (item_id :> [sku |-> sku, quantity |-> quantity,
                                     item_status |-> "pending", is_bundle |-> FALSE]) @@ @,
              !.reported = (item_id :> None) @@ @]

VARIABLES db, alloc, tx

vars == <<db, alloc, tx>>

AllocIdle == [pc |-> "idle"]
DbIdle == [pc |-> "idle"]
TxIdle == [pc |-> "idle"]

\* ------------------------------------ the handlers, one request at a time
MaxStopId == 3

\* After ingest: order 1 with its two pending items, nothing planned yet.
InitDb(sku1, q1, sku2) ==
    [orders |-> (1 :> "pending"),
     items |-> (1 :> [sku |-> sku1, quantity |-> q1, item_status |-> "pending",
                      is_bundle |-> FALSE])
            @@ (2 :> [sku |-> sku2, quantity |-> 1, item_status |-> "pending",
                      is_bundle |-> FALSE]),
     reported |-> (1 :> None) @@ (2 :> None),
     lists |-> << >>, plis |-> << >>, routes |-> << >>, stops |-> {},
     next_stop_id |-> 1]

Init ==
    /\ \E sku1 \in {"M", "G"}, q1 \in 1..MaxQty, sku2 \in {"F", "U"} :
          db = InitDb(sku1, q1, sku2)
    /\ alloc = AllocIdle
    /\ tx = TxIdle

CreateOrder ==
    /\ 2 \notin DOMAIN db.orders
    /\ \E sku \in {"M", "F"} : db' = create_order(db, 2, 3, sku, 2)
    /\ UNCHANGED <<alloc, tx>>

AssignDay ==
    /\ \E itemOrder \in ReadOrders(DOMAIN db.items), rows \in RowReads :
          db' = auto_assign_daily_orders(db, itemOrder, rows)
    /\ UNCHANGED <<alloc, tx>>

AssignSpecific ==
    /\ \E s \in StaffIds, itemOrder \in ReadOrders(DOMAIN db.items), rows \in RowReads :
          db' = assign_to_specific_staff(db, s, itemOrder, rows)
    /\ UNCHANGED <<alloc, tx>>

Optimize ==
    /\ \E s \in StaffIds, pr \in {"speed", "distance", "balanced"} :
          \E r \in {generate_route_for_staff(db, s, pr)} :
              /\ r.d.next_stop_id <= MaxStopId + 1
              /\ db' = IF r.raised THEN db ELSE r.d
    /\ UNCHANGED <<alloc, tx>>

\* The status the tracker reports for a stop.
StopStatuses == {"completed"}

CompleteStop ==
    /\ \E s \in db.stops, st \in StopStatuses, u \in {None} \cup {Some(x) : x \in StaffIds} :
          db' = update_stop_controller(db, s.route_id, s.stop_id, st, u)
    /\ UNCHANGED <<alloc, tx>>

\* Lists of stop ids sent for a route: its stops in reverse id order, and
\* its stops in id order with the first id repeated at the end.
ReorderInputs(d, route_id) ==
    LET ids == SeqOfSet({s.stop_id : s \in {x \in d.stops : x.route_id = route_id}})
    IN  {Reverse(ids)} \cup (IF Len(ids) > 0 THEN {Append(ids, ids[1])} ELSE {})

Reorder ==
    /\ \E r \in 1..Len(db.routes), u \in StaffIds :
          \E stop_ids \in ReorderInputs(db, r) :
             db' = reorder_route_stops_controller(db, r, stop_ids, u)
    /\ UNCHANGED <<alloc, tx>>

Next ==
    \/ CreateOrder
    \/ AssignDay
    \/ AssignSpecific
    \/ Optimize
    \/ CompleteStop
    \/ Reorder

Spec == Init /\ [][Next]_vars

\* PurchaseListItems (row numbers) of an OrderItem, and their total quantity.
PlisOf(d, i) == {k \in 1..Len(d.plis) : d.plis[k].item_id = i}

SumPlis(d, i) ==
    SumOver(PlisOf(d, i), [k \in 1..Len(d.plis) |-> d.plis[k].quantity_to_purchase])

\* C2: after assignDay and assign_to_specific_staff calls run one after
\* another, every OrderItem that has PurchaseListItems has their quantities
\* plus the remaining reported by allocate equal to its quantity, and no step
\* adds PurchaseListItems to an OrderItem that already has some.
SequentialConservation ==
    /\ [](\A i \in DOMAIN db.items :
            PlisOf(db, i) # {} =>
                /\ ~IsNone(db.reported[i])
                /\ SumPlis(db, i) + Val(db.reported[i]) = db.items[i].quantity)
    /\ [][\A i \in DOMAIN db.items :
            PlisOf(db, i) # {} => PlisOf(db', i) = PlisOf(db, i)]_vars

SequentialConservationWitness ==
    /\ 3 \in DOMAIN db.items
    /\ PlisOf(db, 3) # {}
    /\ Cardinality(PlisOf(db, 1)) = 2
    /\ Val(db.reported[1]) > 0
    /\ \E k \in PlisOf(db, 1), m \in PlisOf(db, 3) :
          db.plis[k].list_id # db.plis[m].list_id

\* C3: every buyer's number of PurchaseListItems stays within the buyer's
\* max_daily_capacity over assignDay and assign_to_specific_staff calls.
CapacityRespect ==
    \A s \in StaffIds : StaffLoad(db, s) <= StaffRow(s).max_daily_capacity

\* A buyer is full and an allocated item was left pending for it.
CapacityRespectWitness ==
    \E s \in StaffIds, i \in DOMAIN db.items :
        /\ StaffLoad(db, s) = StaffRow(s).max_daily_capacity
        /\ db.items[i].item_status = "pending"
        /\ ~IsNone(db.reported[i])
        /\ Val(db.reported[i]) < db.items[i].quantity

\* C9: every PurchaseListItem of an OrderItem whose Product has
\* is_store_fixed references that product's fixed_store_id.
StoreFixedEnforced ==
    \A k \in 1..Len(db.plis) :
        LET product == ProductsBySku[db.items[db.plis[k].item_id].sku]
        IN  (~IsNone(product) /\ Val(product).is_store_fixed)
                => Val(product).fixed_store_id = Some(db.plis[k].store_id)

RouteStopsOf(d, r) == {s \in d.stops : s.route_id = r}

AllStopsCompleted(d, r) ==
    /\ RouteStopsOf(d, r) # {}
    /\ \A s \in RouteStopsOf(d, r) : s.stop_status = "completed"

\* C7: when completeStop moves the last stop of a generated route to
\* completed, the Route is completed, every OrderItem with a
\* PurchaseListItem in the route's PurchaseList is purchased, and every
\* Order all of whose OrderItems are covered by that route is completed.
ExecutionCascade ==
    [][\A r \in 1..Len(db.routes) :
          (~AllStopsCompleted(db, r) /\ AllStopsCompleted(db', r)) =>
              LET list_id == db'.routes[r].list_id
                  covered == {db'.plis[k].item_id : k \in ListItemIds(db', list_id)}
              IN  /\ db'.routes[r].route_status = "completed"
                  /\ \A i \in covered : db'.items[i].item_status = "purchased"
                  /\ \A o \in DOMAIN db'.orders :
                        {i \in DOMAIN db'.items : OrderOf(i) = o} \subseteq covered
                            => db'.orders[o] = "completed"]_vars

\* C8: the stop_sequence values of the RouteStops of every Route are
\* exactly 1..N, N the number of its stops.
SequenceDense ==
    \A r \in 1..Len(db.routes) :
        /\ {s.stop_sequence : s \in RouteStopsOf(db, r)}
               = 1..Cardinality(RouteStopsOf(db, r))
        /\ \A s, t \in RouteStopsOf(db, r) :
               s.stop_sequence = t.stop_sequence => s = t

\* ------------------------------------- two requests, each in its own session
\* Every request runs in its own session and transaction (get_db).  A
\* request reads the committed rows when it begins, works on its session's
\* copy, and its flush and commit write what it changed: the columns it
\* assigned and the rows it added, which get the next free ids.
Requests == {1, 2}

\* The order's first day: unplanned, or planned and routed by one request.
Routed(d) ==
    generate_all_routes_for_date(
        auto_assign_daily_orders(d, SeqOfSet(DOMAIN d.items),
                                 CHOOSE rows \in RowReads : TRUE),
        "speed").d

InitConc ==
    /\ \E sku1 \in {"M", "G"}, q1 \in 1..MaxQty, routed \in BOOLEAN :
          db = IF routed THEN Routed(InitDb(sku1, q1, "F")) ELSE InitDb(sku1, q1, "F")
    /\ alloc = AllocIdle
    /\ tx = [t \in Requests |-> TxIdle]

\* The id a row added by the session gets when it is written after `now`
\* rows exist, `seen` of which the session had read.
NewId(id, seen, now) == IF id <= seen THEN id ELSE id - seen + now

\* The columns of row `mine` the session assigned, written over `cur`.
WriteChanged(cur, read, mine) ==
    [f \in DOMAIN cur |-> IF mine[f] # read[f] THEN mine[f] ELSE cur[f]]

\* The committed rows after the session that read `snap` and holds `work`
\* has flushed and committed onto `cur`.
CommitSession(cur, snap, work) ==
    LET nl == Len(snap.lists)
        np == Len(snap.plis)
        lists1 == [l \in 1..Len(cur.lists) |->
                      IF l <= nl THEN WriteChanged(cur.lists[l], snap.lists[l], work.lists[l])
                      ELSE cur.lists[l]]
        newPlis == [k \in 1..(Len(work.plis) - np) |->
                      [work.plis[np + k] EXCEPT
                          !.list_id = NewId(@, nl, Len(cur.lists))]]
        stopOf(d, id) == CHOOSE x \in d.stops : x.stop_id = id
    IN  [cur EXCEPT
            !.items = [i \in DOMAIN cur.items |->
                          WriteChanged(cur.items[i], snap.items[i], work.items[i])],
            !.orders = [o \in DOMAIN cur.orders |->
                          IF work.orders[o] # snap.orders[o] THEN work.orders[o]
                          ELSE cur.orders[o]],
            !.reported = [i \in DOMAIN cur.reported |->
                          IF work.reported[i] # snap.reported[i] THEN work.reported[i]
                          ELSE cur.reported[i]],
            !.lists = lists1 \o SubSeq(work.lists, nl + 1, Len(work.lists)),
            !.plis = cur.plis \o newPlis,
            !.stops = {WriteChanged(x, stopOf(snap, x.stop_id), stopOf(work, x.stop_id))
                          : x \in cur.stops},
            !.routes = [r \in 1..Len(cur.routes) |->
                          WriteChanged(cur.routes[r], snap.routes[r], work.routes[r])]]

Begin(t, work) ==
    /\ tx[t].pc = "idle"
    /\ tx' = [tx EXCEPT ![t] = [pc |-> "open", snap |-> db, work |-> work]]
    /\ UNCHANGED <<db, alloc>>

BeginAssignDay(t) ==
    \E rows \in RowReads :
        Begin(t, auto_assign_daily_orders(db, SeqOfSet(DOMAIN db.items), rows))

BeginAssignSpecific(t) ==
    \E s \in StaffIds, rows \in RowReads :
        Begin(t, assign_to_specific_staff(db, s, SeqOfSet(DOMAIN db.items), rows))

BeginCompleteStop(t) ==
    \E s \in db.stops :
        Begin(t, update_stop_controller(db, s.route_id, s.stop_id, "completed", None))

Commit(t) ==
    /\ tx[t].pc = "open"
    /\ db' = CommitSession(db, tx[t].snap, tx[t].work)
    /\ tx' = [tx EXCEPT ![t] = [pc |-> "done"]]
    /\ UNCHANGED alloc

NextConc ==
    \E t \in Requests :
        \/ BeginAssignDay(t)
        \/ BeginAssignSpecific(t)
        \/ BeginCompleteStop(t)
        \/ Commit(t)

SpecConc == InitConc /\ [][NextConc]_vars

\* C4: with concurrent assignDay calls, no OrderItem ends up with
\* PurchaseListItems of both calls: the quantities of the PurchaseListItems
\* of an OrderItem never add up to more than its quantity.
NoDoubleAssignment ==
    \A i \in DOMAIN db.items : SumPlis(db, i) <= db.items[i].quantity

\* C5: there is at most one PurchaseList per (buyer, date), also after
\* concurrent assignment calls that each found none.
OneListPerBuyer ==
    \A s \in StaffIds :
        Cardinality({l \in 1..Len(db.lists) : db.lists[l].staff_id = s}) <= 1

\* C6: once the completeStop calls on the stops of a route have all
\* committed and every RouteStop of the route is completed, the Route is
\* completed.
RouteCompletedWithStops ==
    \A r \in 1..Len(db.routes) :
        AllStopsCompleted(db, r) => db.routes[r].route_status = "completed"

\* -------------------------------------- the dispatch request, stage by stage
\* POST /generate-routes inside its get_db session.  tx holds the request's
\* position, the committed rows it started from (before), its session's
\* rows, the PurchaseLists still to route and the route ids returned so far.

\* What a flush would leave committed if it committed.
FlushCommits(committed, session) == session

\* The committed rows after the session has flushed: a flush writes inside
\* the open transaction, other sessions still see what was committed.
Flushed(committed, session) == committed

InitDispatch ==
    /\ \E sku1 \in {"M", "G"}, q1 \in 1..MaxQty, sku2 \in {"F", "U"} :
          db = InitDb(sku1, q1, sku2)
    /\ alloc = AllocIdle
    /\ tx = TxIdle

ListsToRoute(d) ==
    SeqOfSet({l \in 1..Len(d.lists) :
                /\ d.lists[l].total_items > 0
                /\ d.lists[l].staff_id \in StaffIds
                /\ StaffRow(d.lists[l].staff_id).role = "buyer"
                /\ StaffRow(d.lists[l].staff_id).is_active})

\* Step 1, and the SELECT of step 2 that lists the PurchaseLists to route.
DispatchAssign ==
    /\ tx.pc = "idle"
    /\ \E itemOrder \in ReadOrders(DOMAIN db.items), rows \in RowReads :
          \E session \in {auto_assign_daily_orders(db, itemOrder, rows)} :
             /\ tx' = [pc |-> "routing", before |-> db, session |-> session,
                       todo |-> ListsToRoute(session), route_ids |-> << >>,
                       itemOrder |-> itemOrder, rows |-> rows]
             /\ db' = Flushed(db, session)
    /\ UNCHANGED alloc

\* Step 2, one buyer: generate_route_for_staff for the next PurchaseList.
DispatchRoute ==
    /\ tx.pc = "routing"
    /\ tx.todo # << >>
    /\ \E r \in {generate_route_for_staff(tx.session,
                     tx.session.lists[tx.todo[1]].staff_id, "speed")} :
          /\ r.d.next_stop_id <= MaxStopId + 1
          /\ tx' = IF r.raised THEN [tx EXCEPT !.pc = "failed"]
                   ELSE [tx EXCEPT !.session = r.d, !.todo = Tail(@),
                                   !.route_ids = IF IsNone(r.route_id) THEN @
                                                 ELSE Append(@, Val(r.route_id))]
          /\ db' = Flushed(db, r.d)
    /\ UNCHANGED alloc

\* Step 3: the routes just generated are started.
DispatchStart ==
    /\ tx.pc = "routing"
    /\ tx.todo = << >>
    /\ tx' = [tx EXCEPT !.pc = "started",
                        !.session = StartRoutes(tx.session, tx.route_ids)]
    /\ UNCHANGED <<db, alloc>>

\* await db.commit()
DispatchCommit ==
    /\ tx.pc = "started"
    /\ db' = tx.session
    /\ tx' = [tx EXCEPT !.pc = "committed"]
    /\ UNCHANGED alloc

\* A statement of the request raises: get_db rolls the session back.
DispatchFail ==
    /\ tx.pc \in {"routing", "started"}
    /\ tx' = [tx EXCEPT !.pc = "failed"]
    /\ UNCHANGED <<db, alloc>>

\* The response is sent; the next request may come.
DispatchReturn ==
    /\ tx.pc \in {"committed", "failed"}
    /\ tx' = TxIdle
    /\ UNCHANGED <<db, alloc>>

DispatchCreateOrder ==
    /\ tx.pc = "idle"
    /\ CreateOrder

NextDispatch ==
    \/ DispatchAssign
    \/ DispatchRoute
    \/ DispatchStart
    \/ DispatchCommit
    \/ DispatchFail
    \/ DispatchReturn
    \/ DispatchCreateOrder

SpecDispatch == InitDispatch /\ [][NextDispatch]_vars

\* C10: the dispatch request is atomic: while it runs and after it failed
\* nothing it did is committed, and after it succeeded the committed rows are
\* the whole result of assignment, route generation and route start.
DispatchAtomic ==
    /\ tx.pc \in {"routing", "started", "failed"} => db = tx.before
    /\ tx.pc = "committed" =>
          db = generate_all_routes(tx.before, tx.itemOrder, tx.rows)

\* The request failed after it had assigned items and generated a route.
DispatchAtomicWitness ==
    /\ tx.pc = "failed"
    /\ Len(tx.session.plis) > Len(tx.before.plis)
    /\ Len(tx.session.routes) > Len(tx.before.routes)

\* What a plan of the day leaves: the PurchaseListItems as (OrderItem, store,
\* quantity, buyer), the number of PurchaseLists and Routes, and each route's
\* stops as (route, store, stop_sequence).
AssignmentOf(d) ==
    [plis |-> [k \in 1..Len(d.plis) |->
                  <<d.plis[k].item_id, d.plis[k].store_id,
                    d.plis[k].quantity_to_purchase,
                    d.lists[d.plis[k].list_id].staff_id>>],
     lists |-> Len(d.lists),
     routes |-> Len(d.routes),
     stops |-> {<<s.route_id, s.store_id, s.stop_sequence>> : s \in d.stops}]

PartialStaysPending ==
    [][\A i \in DOMAIN db.items :
          (/\ db.items[i].item_status = "pending"
           /\ ~IsNone(db'.reported[i])
           /\ Val(db'.reported[i]) > 0)
          => db'.items[i].item_status = "pending"]_vars

\* The quantity to purchase at a stop: the PurchaseListItems of the route's
\* list at the stop's store.
StopQuantity(d, stop) ==
    LET rowsOf == {k \in ListItemIds(d, d.routes[stop.route_id].list_id) :
                      d.plis[k].store_id = stop.store_id}
    IN  SumOver(rowsOf, [k \in rowsOf |-> d.plis[k].quantity_to_purchase])

\* Minutes of travel to a stop from where the buyer was before it: the last
\* earlier stop with coordinates, else the start location; none to a store
\* without coordinates.
LegTravelMinutes(d, stop) ==
    IF IsNone(StoreLatLng(stop.store_id)) THEN 0
    ELSE
    LET staff == StaffRow(d.routes[stop.route_id].staff_id)
        start == IF IsNone(staff.start_location) THEN DefaultCenter
                 ELSE Val(staff.start_location)
        stops == RouteStopsOf(d, stop.route_id)
        before == {s \in stops : /\ s.stop_sequence < stop.stop_sequence
                                 /\ ~IsNone(StoreLatLng(s.store_id))}
        cache == _fetch_distance_cache({s.store_id : s \in stops})
    IN  IF before = {}
        THEN TravelMinutes(_get_distance(start, Val(StoreLatLng(stop.store_id)),
                                         None, Some(stop.store_id), cache))
        ELSE LET prev == CHOOSE s \in before :
                            \A t \in before : t.stop_sequence <= s.stop_sequence
             IN  TravelMinutes(_get_distance(Val(StoreLatLng(prev.store_id)),
                                             Val(StoreLatLng(stop.store_id)),
                                             Some(prev.store_id), Some(stop.store_id),
                                             cache))

\* The stops of route r in db' were all created by the step.
GeneratedRoute(r) ==
    /\ r \in 1..Len(db'.routes)
    /\ RouteStopsOf(db', r) # {}
    /\ \A s \in RouteStopsOf(db', r) : s.stop_id >= db.next_stop_id

ScheduleTotals ==
    [][\A r \in 1..Len(db'.routes) : GeneratedRoute(r) =>
          /\ \A s \in RouteStopsOf(db', r) :
                ~IsNone(StoreOpens(s.store_id))
                   => s.estimated_arrival >= Val(StoreOpens(s.store_id))
          /\ \E last \in RouteStopsOf(db', r) :
                /\ \A s \in RouteStopsOf(db', r) : s.stop_sequence <= last.stop_sequence
                /\ db'.routes[r].estimated_time_minutes
                      = last.estimated_arrival
                        + SHOPPING_TIME_BASE_PER_STORE
                        + SHOPPING_TIME_PER_ITEM * StopQuantity(db', last)
                        - DEFAULT_ROUTE_START_TIME]_vars

\* A route whose first stop is reached before its store opens: the arrival
\* is the opening time and the wait is part of estimated_time_minutes.
ScheduleTotalsWitness ==
    \E r \in 1..Len(db.routes) : \E s \in RouteStopsOf(db, r) :
        /\ s.stop_sequence = 1 /\ s.stop_status = "pending"
        /\ ~IsNone(StoreOpens(s.store_id))
        /\ s.estimated_arrival = Val(StoreOpens(s.store_id))
        /\ s.estimated_arrival > DEFAULT_ROUTE_START_TIME
        /\ db.routes[r].estimated_time_minutes
              >= s.estimated_arrival - DEFAULT_ROUTE_START_TIME
                 + SHOPPING_TIME_BASE_PER_STORE + SHOPPING_TIME_PER_ITEM

\* ------------------------------------------------- placement of an item
\* The items an assignDay call on d walks, in the order it reads them.
WalkedItems(d, itemOrder) ==
    SelectSeq(itemOrder, LAMBDA i : d.orders[OrderOf(i)] = "pending" /\ IsPendingItem(d, i))

\* Rows the call added (d1 is the state after it) for the items walked
\* before position k, on a list of buyer s.
RowsBefore(d, d1, walked, k, s) ==
    {m \in (Len(d.plis) + 1)..Len(d1.plis) :
        /\ d1.lists[d1.plis[m].list_id].staff_id = s
        /\ \E j \in 1..(k - 1) : walked[j] = d1.plis[m].item_id}

\* The buyer's running centroid when item k is placed: the mean of the
\* stores with coordinates given to the buyer so far in the call, the
\* buyer's start location when there is none.
RunningCentroid(d, d1, walked, k, s) ==
    LET cs == CoordSum({d1.plis[m].store_id : m \in RowsBefore(d, d1, walked, k, s)})
        p == IF IsNone(StaffRow(s).start_location) THEN DefaultCenter
             ELSE Val(StaffRow(s).start_location)
    IN  IF cs.n > 0 THEN cs ELSE [x |-> p[1], y |-> p[2], n |-> 1]

\* The score of buyer s for an item at the given stores: squared distance
\* of the two centroids, quartered (the distance halved) on an overlap.
PlacementScore(d, d1, walked, k, s, stores) ==
    LET cs == CoordSum(stores)
        ic == IF cs.n = 0 THEN [x |-> DefaultCenter[1], y |-> DefaultCenter[2], n |-> 1]
              ELSE cs
        d2 == CentroidDist2(RunningCentroid(d, d1, walked, k, s), ic)
        mine == {d1.plis[m].store_id : m \in RowsBefore(d, d1, walked, k, s)}
    IN  IF mine \cap stores # {} THEN [num |-> d2.num, den |-> 4 * d2.den] ELSE d2

\* Buyer s has room for n more rows when item k is placed.
Qualifies(d, d1, walked, k, s, n) ==
    StaffLoad(d, s) + Cardinality(RowsBefore(d, d1, walked, k, s)) + n
        <= StaffRow(s).max_daily_capacity

\* The call that took d to d1 placed every allocated item it walked on the
\* qualifying buyer of lowest score, the lower staff_id on equal scores, and
\* left an item no buyer qualified for pending and without rows.
PlacedByScore(d, d1, itemOrder, rows) ==
    LET walked == WalkedItems(d, itemOrder)
        item_allocations == allocate_quantities_to_stores(ItemRecs(d, walked),
                                                          ProductsBySku, rows, None)
    IN  \A k \in 1..Len(walked) :
          LET i == walked[k]
              a == IF i \in DOMAIN item_allocations
                   THEN item_allocations[i].allocations ELSE << >>
              stores == AllocStoreIds(a)
              ok == {s \in StaffIds : Qualifies(d, d1, walked, k, s, Len(a))}
              sc(s) == PlacementScore(d, d1, walked, k, s, stores)
          IN  a # << >> =>
                IF ok = {}
                THEN PlisOf(d1, i) = {} /\ d1.items[i].item_status = "pending"
                ELSE \E s \in ok :
                       /\ PlisOf(d1, i) # {}
                       /\ \A m \in PlisOf(d1, i) : d1.lists[d1.plis[m].list_id].staff_id = s
                       /\ \A t \in ok : ~FracLess(sc(t), sc(s))
                       /\ \A t \in ok : ~FracLess(sc(s), sc(t)) => s <= t

AssignDayAdvancesOrders ==
    [][\A itemOrder \in ReadOrders(DOMAIN db.items), rows \in RowReads :
          (db' = auto_assign_daily_orders(db, itemOrder, rows) /\ db' # db)
          => \A o \in DOMAIN db.orders :
                db.orders[o] = "pending" =>
                   db'.orders[o] =
                      IF \E i \in DOMAIN db'.items :
                            OrderOf(i) = o /\ db'.items[i].item_status = "pending"
                      THEN "pending" ELSE "assigned"]_vars

\* C25: every PurchaseList has total_items equal to the number of its
\* PurchaseListItems and total_stores equal to the number of distinct
\* store_ids among them.
ListCountersConsistent ==
    \A l \in 1..Len(db.lists) :
        /\ db.lists[l].total_items
               = Cardinality({k \in 1..Len(db.plis) : db.plis[k].list_id = l})
        /\ db.lists[l].total_stores = Cardinality(ListStores(db, l))

\* C26: a successful optimize step changes an Order's status only from
\* assigned to in_progress and only for an Order with an item on the buyer's
\* PurchaseList; every other Order, every OrderItem and every
\* PurchaseListItem is as before.
OptimizeFrame ==
    [][\A s \in StaffIds, pr \in {"speed", "distance", "balanced"} :
          (/\ db'.next_stop_id # db.next_stop_id
           /\ \E r \in {generate_route_for_staff(db, s, pr)} :
                 ~r.raised /\ ~IsNone(r.route_id) /\ db' = r.d)
          => /\ \A o \in DOMAIN db.orders :
                  db'.orders[o] # db.orders[o] =>
                     /\ db.orders[o] = "assigned"
                     /\ db'.orders[o] = "in_progress"
                     /\ \E k \in 1..Len(db.plis) :
                           /\ db.lists[db.plis[k].list_id].staff_id = s
                           /\ OrderOf(db.plis[k].item_id) = o
             /\ DOMAIN db'.orders = DOMAIN db.orders
             /\ db'.items = db.items
             /\ db'.plis = db.plis]_vars

\* An Order went to in_progress with a route of its buyer while another
\* Order with an assigned item on another buyer's list is still pending.
OptimizeFrameWitness ==
    \E o, p \in DOMAIN db.orders :
        /\ db.orders[o] = "in_progress"
        /\ db.orders[p] = "pending"
        /\ \E k, m \in 1..Len(db.plis) :
              /\ OrderOf(db.plis[k].item_id) = o
              /\ OrderOf(db.plis[m].item_id) = p
              /\ db.plis[k].list_id # db.plis[m].list_id
              /\ \E rt \in 1..Len(db.routes) : db.routes[rt].list_id = db.plis[k].list_id

\* C27: the PurchaseList of a Route in execution (in_progress) is in_progress
\* or completed, and the PurchaseList of a Route whose RouteStops are all
\* completed is completed.
ListLifecycle ==
    \A r \in 1..Len(db.routes) :
        /\ db.routes[r].route_status = "in_progress"
              => db.lists[db.routes[r].list_id].list_status \in {"in_progress", "completed"}
        /\ AllStopsCompleted(db, r)
              => db.lists[db.routes[r].list_id].list_status = "completed"

\* C29: a PurchaseList never has more than one Route, a Route keeps its
\* route_id and its list, and after every successful optimize step the
\* RouteStops of the buyer's Route are exactly the stops that call built: one
\* per store of the list, none from an earlier generation.
RouteReuse ==
    /\ [](\A l \in 1..Len(db.lists) :
            Cardinality({r \in 1..Len(db.routes) : db.routes[r].list_id = l}) <= 1)
    /\ [][\A r \in 1..Len(db.routes) :
            /\ r <= Len(db'.routes)
            /\ db'.routes[r].list_id = db.routes[r].list_id]_vars
    /\ [][\A s \in StaffIds, pr \in {"speed", "distance", "balanced"} :
            (/\ db'.next_stop_id # db.next_stop_id
             /\ \E r \in {generate_route_for_staff(db, s, pr)} :
                   ~r.raised /\ ~IsNone(r.route_id) /\ db' = r.d)
            => \E rt \in 1..Len(db'.routes) :
                  /\ db'.lists[db'.routes[rt].list_id].staff_id = s
                  /\ \A x \in RouteStopsOf(db', rt) : x.stop_id >= db.next_stop_id
                  /\ {x.store_id : x \in RouteStopsOf(db', rt)}
                         = ListStores(db, db'.routes[rt].list_id)
                  /\ Cardinality(RouteStopsOf(db', rt))
                         = Cardinality(ListStores(db, db'.routes[rt].list_id))]_vars

\* A route generated a second time: its stops are newer than the stops of
\* its first generation, which are gone.
RouteReuseWitness ==
    \E rt \in 1..Len(db.routes) :
        /\ RouteStopsOf(db, rt) # {}
        /\ \A x \in RouteStopsOf(db, rt) : x.stop_id > Cardinality(db.stops)
        /\ Cardinality({r \in 1..Len(db.routes) :
                            db.routes[r].list_id = db.routes[rt].list_id}) = 1

\* C30: in the route a successful optimize step builds, for every priority,
\* each distinct store of the buyer's PurchaseList is the store of exactly
\* one stop, the stops are numbered 1..n, and every stop for a store without
\* coordinates comes after every stop for a store with coordinates.
RouteCoversStores ==
    [][\A s \in StaffIds, pr \in {"speed", "distance", "balanced"} :
          (/\ db'.next_stop_id # db.next_stop_id
           /\ \E r \in {generate_route_for_staff(db, s, pr)} :
                 ~r.raised /\ ~IsNone(r.route_id) /\ db' = r.d)
          => \A rt \in {x \in 1..Len(db'.routes) :
                            db'.lists[db'.routes[x].list_id].staff_id = s} :
                LET stops == RouteStopsOf(db', rt) IN
                /\ \A st \in ListStores(db', db'.routes[rt].list_id) :
                      Cardinality({x \in stops : x.store_id = st}) = 1
                /\ \A x \in stops : x.store_id \in ListStores(db', db'.routes[rt].list_id)
                /\ {x.stop_sequence : x \in stops} = 1..Cardinality(stops)
                /\ \A x, y \in stops :
                      (IsNone(StoreLatLng(x.store_id)) /\ ~IsNone(StoreLatLng(y.store_id)))
                      => x.stop_sequence > y.stop_sequence]_vars

\* A route of three stops, the last one for a store without coordinates.
RouteCoversStoresWitness ==
    \E rt \in 1..Len(db.routes) :
        /\ Cardinality(RouteStopsOf(db, rt)) = 3
        /\ \E x \in RouteStopsOf(db, rt) :
              IsNone(StoreLatLng(x.store_id)) /\ x.stop_sequence = 3

\* C33: in the assignDay call the state allows, an item whose SKU has no
\* Product row gets an allocation with no store and remaining = quantity,
\* gets no PurchaseListItem and stays pending, and every other item walked
\* that has an allocation to a store is assigned unless no buyer has room.
UnknownSkuIsLocal ==
    \A itemOrder \in ReadOrders(DOMAIN db.items), rows \in RowReads :
        LET walked == WalkedItems(db, itemOrder)
            item_allocations == allocate_quantities_to_stores(ItemRecs(db, walked),
                                                              ProductsBySku, rows, None)
            d1 == auto_assign_daily_orders(db, itemOrder, rows)
        IN  \A k \in 1..Len(walked) :
              IsNone(ProductsBySku[db.items[walked[k]].sku]) =>
                /\ walked[k] \in DOMAIN item_allocations
                /\ item_allocations[walked[k]].allocations = << >>
                /\ item_allocations[walked[k]].remaining_quantity
                       = db.items[walked[k]].quantity
                /\ PlisOf(d1, walked[k]) = PlisOf(db, walked[k])
                /\ d1.items[walked[k]].item_status = "pending"
                /\ \A j \in 1..Len(walked) :
                      (/\ walked[j] \in DOMAIN item_allocations
                       /\ item_allocations[walked[j]].allocations # << >>)
                      => \/ d1.items[walked[j]].item_status = "assigned"
                         \/ \A s \in StaffIds :
                               StaffLoad(d1, s)
                                 + Len(item_allocations[walked[j]].allocations)
                               > StaffRow(s).max_daily_capacity

\* The RouteStops that carry a purchase task of the OrderItem: the stops of
\* the route of a PurchaseListItem's list at the PurchaseListItem's store.
StopsCarrying(d, i) ==
    {st \in d.stops : \E k \in PlisOf(d, i) :
        /\ d.routes[st.route_id].list_id = d.plis[k].list_id
        /\ st.store_id = d.plis[k].store_id}

\* C36: a step that makes an OrderItem purchased leaves every RouteStop that
\* carries one of its purchase tasks completed, and a step that makes an
\* Order completed leaves every RouteStop carrying a task of one of its
\* OrderItems completed.
CompletedOnlyWhenAllStopsDone ==
    [][/\ \A i \in DOMAIN db.items :
            (db.items[i].item_status # "purchased"
             /\ db'.items[i].item_status = "purchased")
            => \A st \in StopsCarrying(db', i) : st.stop_status = "completed"
       /\ \A o \in DOMAIN db.orders :
            (db.orders[o] # "completed" /\ db'.orders[o] = "completed")
            => \A i \in DOMAIN db'.items : OrderOf(i) = o =>
                  \A st \in StopsCarrying(db', i) : st.stop_status = "completed"]_vars

\* C38: no step returns a Route that is in_progress or completed to
\* not_started, and after no step is the stop of a route at a store pending
\* when the stop of that route at that store was completed before it.
ProgressSurvivesReplanning ==
    [][/\ \A r \in 1..Len(db.routes) :
            db.routes[r].route_status \in {"in_progress", "completed"}
               => db'.routes[r].route_status # "not_started"
       /\ \A s \in db.stops : s.stop_status = "completed" =>
            \A t \in db'.stops :
               (t.route_id = s.route_id /\ t.store_id = s.store_id)
                  => t.stop_status # "pending"]_vars

\* ------------------------------------------------ assignment by staff role
\* The assignment handlers with every Staff row as the staff_id of
\* POST /staff/{staff_id}/auto-assign.
AssignSpecificAny ==
    /\ \E s \in AllStaff, itemOrder \in ReadOrders(DOMAIN db.items), rows \in RowReads :
          db' = assign_to_specific_staff(db, s, itemOrder, rows)
    /\ UNCHANGED <<alloc, tx>>

NextRoles == CreateOrder \/ AssignDay \/ AssignSpecificAny

SpecRoles == Init /\ [][NextRoles]_vars

\* C21: every PurchaseListItem is on a PurchaseList of a staff member whose
\* role is buyer.
OnlyBuyersReceiveWork ==
    \A k \in 1..Len(db.plis) :
        StaffRow(db.lists[db.plis[k].list_id].staff_id).role = "buyer"

\* ------------------------------------------- execution updates by caller
\* Stop updates with the caller on record.  tx holds the last request: who
\* called (None: no current_user_id was passed; 9: an id without Staff row),
\* the rows before it and how it was answered.
StopCallers == {None} \cup {Some(u) : u \in StaffIds \cup {9}}

InitStop ==
    /\ \E sku1 \in {"M", "G"}, q1 \in 1..MaxQty, sku2 \in {"F", "U"} :
          db = Routed(InitDb(sku1, q1, sku2))
    /\ alloc = AllocIdle
    /\ tx = TxIdle

\* update_stop_controller called for a stop of a route, or for a stop id
\* the route does not have.
UpdateStop ==
    /\ \E r \in 1..Len(db.routes), stop_id \in 1..db.next_stop_id,
          st \in {"pending", "current", "completed", "skipped"}, u \in StopCallers :
          /\ db' = update_stop_controller(db, r, stop_id, st, u)
          /\ tx' = [pc |-> "responded", caller |-> u, route_id |-> r,
                    stop_id |-> stop_id, before |-> db,
                    answer |-> IF StopOf(db, r, stop_id) = {} THEN "not_found"
                               ELSE IF StopUpdateForbidden(db, r, u) THEN "forbidden"
                               ELSE "ok"]
    /\ UNCHANGED alloc

NextStop == UpdateStop

SpecStop == InitStop /\ [][NextStop]_vars

\* The caller of the last request is the route's assigned buyer or a
\* supervisor or admin.
CallerAuthorized ==
    /\ ~IsNone(tx.caller)
    /\ Val(tx.caller) \in StaffIds
    /\ \/ tx.before.routes[tx.route_id].staff_id = Val(tx.caller)
       \/ StaffRow(Val(tx.caller)).role \in {"supervisor", "admin"}

\* C20: a stop update whose caller is not authorized is answered Forbidden
\* and changes nothing; so every update applied has an authorized caller.
StopUpdateAuthorized ==
    (tx.pc = "responded" /\ tx.answer # "not_found" /\ ~CallerAuthorized)
        => (tx.answer = "forbidden" /\ db = tx.before)

\* C28: a stop update that is applied to a not_started route, moves the stop
\* to current or completed and leaves another stop of the route pending puts
\* the Route in in_progress.
FirstStopStartsRoute ==
    [][(/\ tx'.pc = "responded" /\ tx'.answer = "ok"
        /\ db.routes[tx'.route_id].route_status = "not_started"
        /\ \E s \in StopOf(db, tx'.route_id, tx'.stop_id),
              t \in StopOf(db', tx'.route_id, tx'.stop_id) :
               /\ s.stop_status = "pending"
               /\ t.stop_status \in {"current", "completed"}
        /\ \E o \in RouteStopsOf(db', tx'.route_id) :
               o.stop_id # tx'.stop_id /\ o.stop_status = "pending")
       => db'.routes[tx'.route_id].route_status = "in_progress"]_vars

\* C37: whatever statuses the stop updates set, a Route with status
\* completed has every one of its RouteStops in status completed.
CompletedRouteHasCompletedStops ==
    \A r \in 1..Len(db.routes) :
        db.routes[r].route_status = "completed"
            => \A s \in RouteStopsOf(db, r) : s.stop_status = "completed"

\* ------------------------------------------------------ purchase failures
\* POST /purchase/failures with the list_item_id and item_id of the request
\* body.  An item_id without OrderItem row breaks the foreign key of the
\* PurchaseFailure row at commit and the session is rolled back.
record_purchase_failure(d, list_item_id, item_id) ==
    IF list_item_id \notin 1..Len(d.plis) THEN [d |-> d, answer |-> "not_found"]
    ELSE IF item_id \notin DOMAIN d.items THEN [d |-> d, answer |-> "error"]
    ELSE [d |-> [d EXCEPT !.plis[list_item_id].purchase_status = "failed",
                          !.items[item_id].item_status = "failed"],
          answer |-> "ok"]

\* A failure reported for a list item or for an id past the last one, with
\* the item_id of an OrderItem or 9, which has none.
RecordFailure ==
    /\ \E list_item_id \in 1..(Len(db.plis) + 1), item_id \in DOMAIN db.items \cup {9} :
          \E r \in {record_purchase_failure(db, list_item_id, item_id)} :
             /\ db' = r.d
             /\ tx' = [pc |-> "responded", list_item_id |-> list_item_id,
                       item_id |-> item_id, before |-> db, answer |-> r.answer]
    /\ UNCHANGED alloc

NextFailure == RecordFailure

SpecFailure == InitStop /\ [][NextFailure]_vars

\* C32: a failure recorded for PurchaseListItem L sets L to failed and sets
\* to failed exactly the OrderItem L references, adds no PurchaseListItem
\* and changes no other row; a failure for a list item that does not exist
\* is answered NotFound and changes nothing.
FailureTouchesOwnItem ==
    tx.pc = "responded" =>
        IF tx.list_item_id \notin 1..Len(tx.before.plis)
        THEN tx.answer = "not_found" /\ db = tx.before
        ELSE /\ Len(db.plis) = Len(tx.before.plis)
             /\ \A k \in 1..Len(db.plis) :
                   db.plis[k] = IF k = tx.list_item_id
                                THEN [tx.before.plis[k] EXCEPT !.purchase_status = "failed"]
                                ELSE tx.before.plis[k]
             /\ \A i \in DOMAIN db.items :
                   db.items[i].item_status =
                      IF i = tx.before.plis[tx.list_item_id].item_id THEN "failed"
                      ELSE tx.before.items[i].item_status

\* ---------------------------------------------------------- order deletion
\* delete_order: the PurchaseListItems of the order's items are deleted, then
\* the Order, whose OrderItems go with it by the ORM cascade.
delete_order(d, order_id) ==
    IF order_id \notin DOMAIN d.orders THEN [d |-> d, answer |-> "not_found"]
    ELSE LET gone == {i \in DOMAIN d.items : OrderOf(i) = order_id}
         IN  [d |-> [d EXCEPT
                       !.plis = SelectSeq(d.plis, LAMBDA x : x.item_id \notin gone),
                       !.items = [i \in DOMAIN d.items \ gone |-> d.items[i]],
                       !.reported = [i \in DOMAIN d.items \ gone |-> d.reported[i]],
                       !.orders = [o \in DOMAIN d.orders \ {order_id} |-> d.orders[o]]],
              answer |-> "ok"]

\* One or two orders, planned and routed by one POST /generate-routes with
\* the routes started, or planned and routed with the routes not started.
InitDelete ==
    /\ \E sku1 \in {"M", "G"}, q1 \in 1..MaxQty, sku2 \in {"F", "U"},
          second \in BOOLEAN, started \in BOOLEAN :
          \E d0 \in {IF second THEN create_order(InitDb(sku1, q1, sku2), 2, 3, "F", 1)
                      ELSE InitDb(sku1, q1, sku2)} :
             db = IF started
                  THEN generate_all_routes(d0, SeqOfSet(DOMAIN d0.items),
                                           CHOOSE rows \in RowReads : TRUE)
                  ELSE Routed(d0)
    /\ alloc = AllocIdle
    /\ tx = TxIdle

\* DELETE /orders/{order_id} for order 1, 2 or 3.
DeleteOrder ==
    /\ \E order_id \in 1..3 : \E r \in {delete_order(db, order_id)} :
          /\ db' = r.d
          /\ tx' = [pc |-> "responded", order_id |-> order_id, before |-> db,
                    answer |-> r.answer]
    /\ UNCHANGED alloc

NextDelete == DeleteOrder

SpecDelete == InitDelete /\ [][NextDelete]_vars

\* The order of the last request had an item on a route in execution.
DeletedOrderInExecution ==
    \E k \in 1..Len(tx.before.plis), r \in 1..Len(tx.before.routes) :
        /\ OrderOf(tx.before.plis[k].item_id) = tx.order_id
        /\ tx.before.routes[r].list_id = tx.before.plis[k].list_id
        /\ tx.before.routes[r].route_status = "in_progress"

\* C35: a delete_order on an order with an item on an in_progress route is
\* refused and changes nothing; after a delete_order that succeeded no
\* PurchaseListItem and no RouteStop.items_to_purchase entry refers to an
\* OrderItem of the deleted order.
DeleteCascadesOrRefuses ==
    (tx.pc = "responded" /\ "order_id" \in DOMAIN tx /\ tx.answer # "not_found") =>
        IF DeletedOrderInExecution
        THEN tx.answer = "refused" /\ db = tx.before
        ELSE LET gone == {i \in DOMAIN tx.before.items : OrderOf(i) = tx.order_id}
             IN  /\ \A k \in 1..Len(db.plis) : db.plis[k].item_id \notin gone
                 /\ \A st \in db.stops : \A k \in 1..Len(st.items_to_purchase) :
                       st.items_to_purchase[k] \notin gone

\* -------------------------------------------------------- bundle expansion
\* split_bundle_items on the OrderItems of one order.  items is the order's
\* OrderItem table in item_id order, rule the "items" list of the
\* set_split_rule of the bundle's Product (empty: no Product row or no rule).
MaxSplits == 2

BundleRules ==
    { << >>,
      <<[sku |-> "A", qty |-> 2]>>,
      <<[sku |-> "A", qty |-> 2], [sku |-> "B", qty |-> 1]>> }

ChildItem(bundle_id, bundle, item_rule) ==
    [sku |-> item_rule.sku, quantity |-> item_rule.qty * bundle.quantity,
     is_bundle |-> FALSE, parent_item_id |-> Some(bundle_id), item_status |-> "pending"]

\* The "for bundle in bundle_items" loop; ids are the bundle rows selected
\* at the start of the call.
RECURSIVE SplitLoop(_, _, _)
SplitLoop(items, ids, rule) ==
    IF ids = << >> THEN items
    ELSE LET b == ids[1]
             marked == [items EXCEPT ![b].item_status = "assigned"]
             children == [k \in 1..Len(rule) |-> ChildItem(b, items[b], rule[k])]
         IN  SplitLoop(marked \o children, Tail(ids), rule)

split_bundle_items(items, rule) ==
    SplitLoop(items, SeqOfSet({i \in 1..Len(items) : items[i].is_bundle}), rule)

OrderItemRow(sku, quantity, is_bundle) ==
    [sku |-> sku, quantity |-> quantity, is_bundle |-> is_bundle,
     parent_item_id |-> None, item_status |-> "pending"]

\* An order of one bundle, alone or with a second bundle or a plain item.
InitBundle ==
    /\ \E rule \in BundleRules, q \in 1..MaxQty :
          \E more \in {<< >>, <<OrderItemRow("P", 1, FALSE)>>}
                        \cup {<<OrderItemRow("S", q2, TRUE)>> : q2 \in 1..MaxQty} :
             db = [items |-> <<OrderItemRow("S", q, TRUE)>> \o more, rule |-> rule,
                   calls |-> 0]
    /\ alloc = AllocIdle
    /\ tx = TxIdle

\* One expansion of the order: import_bulk_orders or process_order_with_cutoff.
SplitBundles ==
    /\ db.calls < MaxSplits
    /\ db' = [db EXCEPT !.items = split_bundle_items(db.items, db.rule),
                        !.calls = @ + 1]
    /\ UNCHANGED <<alloc, tx>>

NextBundle == SplitBundles

SpecBundle == InitBundle /\ [][NextBundle]_vars

\* C34: once an order was expanded, every bundle OrderItem is assigned and
\* has, for each entry of its split rule, exactly one child OrderItem with
\* is_bundle = false, parent_item_id = the bundle and quantity =
\* qty_per_bundle * bundle.quantity, however often the expansion ran.
BundleExpandedOnce ==
    db.calls >= 1 =>
        \A b \in 1..Len(db.items) : db.items[b].is_bundle =>
            /\ db.items[b].item_status = "assigned"
            /\ \A k \in 1..Len(db.rule) :
                  Cardinality({c \in 1..Len(db.items) :
                      /\ db.items[c].parent_item_id = Some(b)
                      /\ db.items[c].sku = db.rule[k].sku
                      /\ ~db.items[c].is_bundle
                      /\ db.items[c].quantity = db.rule[k].qty * db.items[b].quantity}) = 1

\* ------------------------------------------------ specification of 2-opt
\* _two_opt_improve alone, on tours of stores that have coordinates.  Store k
\* stands at TourPoints[k]; stores 1 to 4 are the corners of a rough square.
MaxTour == 4

TourPoints == <<(<<1, 1>>), (<<4, 1>>), (<<4, 5>>), (<<1, 4>>), (<<3, 3>>), (<<6, 2>>)>>

TourStore(k) == [store_id |-> k, latlng |-> Some(TourPoints[k]), items_count |-> 1,
                 total_quantity |-> 1, opening_hours |-> None]

\* The tours of n distinct stores among the first m.
RECURSIVE ToursOf(_, _)
ToursOf(n, m) ==
    IF n = 0 THEN {<< >>}
    ELSE {Append(q[1], TourStore(q[2])) :
            q \in {pr \in ToursOf(n - 1, m) \X (1..m) :
                      \A x \in 1..Len(pr[1]) : pr[1][x].store_id # pr[2]}}

\* StoreDistanceMatrix rows as calculate_store_distance_matrix leaves them:
\* both directions of a pair with one value, which is stale once a store
\* has moved.
TourCaches ==
    { << >> }
    \cup {(<<x, y>> :> v) @@ (<<y, x>> :> v) :
            x \in {1}, y \in {2, 3}, v \in {100, 900}}

\* Sum of the legs start -> tour[1] -> ... -> tour[n].
RECURSIVE TourDistance(_, _, _, _)
TourDistance(prev, prev_id, tour, distance_cache) ==
    IF tour = << >> THEN 0
    ELSE _get_distance(prev, Val(tour[1].latlng), prev_id, Some(tour[1].store_id),
                       distance_cache)
         + TourDistance(Val(tour[1].latlng), Some(tour[1].store_id), Tail(tour),
                        distance_cache)

InitTwoOpt ==
    /\ db = DbIdle
    /\ tx = TxIdle
    /\ \E n \in 3..MaxTour, start \in {<<1, 1>>, <<3, 2>>}, cache \in TourCaches :
          \E route \in ToursOf(n, n + 1) :
             alloc = [pc |-> "seeded", start_point |-> start, route |-> route,
                      distance_cache |-> cache, seed |-> route, first |-> << >>]

\* _two_opt_improve on the seed tour.
TwoOpt ==
    /\ alloc.pc = "seeded"
    /\ alloc' = [alloc EXCEPT !.pc = "improved",
                   !.route = _two_opt_improve(alloc.start_point, alloc.route,
                                              alloc.distance_cache)]
    /\ UNCHANGED <<db, tx>>

\* _two_opt_improve on the tour it returned.
TwoOptAgain ==
    /\ alloc.pc = "improved"
    /\ alloc' = [alloc EXCEPT !.pc = "again",
                   !.route = _two_opt_improve(alloc.start_point, alloc.route,
                                              alloc.distance_cache),
                   !.first = alloc.route]
    /\ UNCHANGED <<db, tx>>

NextTwoOpt == TwoOpt \/ TwoOptAgain

SpecTwoOpt == InitTwoOpt /\ [][NextTwoOpt]_vars

TourIds(tour) == [k \in 1..Len(tour) |-> tour[k].store_id]

TwoOptEverySegment ==
    alloc.pc = "improved" =>
        /\ \A i, j \in 1..Len(alloc.route) : i < j =>
              ~(TourDistance(alloc.start_point, None, ReverseSeg(alloc.route, i, j),
                             alloc.distance_cache)
                < TourDistance(alloc.start_point, None, alloc.route,
                               alloc.distance_cache) - 1)
        /\ (/\ TourIds(alloc.seed) = <<1, 2, 4, 3>>
            /\ alloc.start_point = <<1, 1>>
            /\ alloc.distance_cache = << >>)
           => /\ TourIds(alloc.route) = <<1, 2, 3, 4>>
              /\ TourDistance(alloc.start_point, None, alloc.route, alloc.distance_cache)
                 < TourDistance(alloc.start_point, None, alloc.seed,
                                alloc.distance_cache)

\* ------------------------------------------------------- cutoff scheduler
\* Dates are day numbers, day 0 a Monday; times of day are minutes.
\* date.weekday(): 0 = Monday .. 5 = Saturday, 6 = Sunday.
Weekday(d) == d % 7

\* Default cutoff_time 13:10 and the cutoff_time of the configured rule.
DefaultCutoffMinutes == 13 * 60 + 10
RuleCutoffMinutes == 10 * 60

\* get_cutoff_settings: the defaults, overwritten by the active CUTOFF rule.
get_cutoff_settings(rule) ==
    IF IsNone(rule)
    THEN [cutoff_time |-> DefaultCutoffMinutes, weekend_processing |-> FALSE,
          holiday_override |-> FALSE]
    ELSE Val(rule)

\* The Holiday row of a date: None, or Some(is_working).
HolidayOn(holidays, d) ==
    IF d \in holidays.working THEN Some(TRUE)
    ELSE IF d \in holidays.closed THEN Some(FALSE)
    ELSE None

cutoff_max_iterations == 30

\* The while loop of apply_cutoff_logic; yields the target_date it leaves.
RECURSIVE CutoffLoop(_, _, _, _)
CutoffLoop(target_date, iterations, settings, holidays) ==
    IF ~(iterations < cutoff_max_iterations) THEN target_date
    ELSE IF ~settings.weekend_processing /\ Weekday(target_date) >= 5
         THEN CutoffLoop(target_date + 1, iterations + 1, settings, holidays)
    ELSE LET holiday == HolidayOn(holidays, target_date)
         IN  IF IsNone(holiday) THEN target_date
             ELSE IF settings.holiday_override THEN target_date
             ELSE IF ~Val(holiday)
                  THEN CutoffLoop(target_date + 1, iterations + 1, settings, holidays)
             ELSE target_date

\* The candidate date: the arrival date before the cutoff, the next day from
\* the cutoff on.
CutoffCandidate(settings, order_date) ==
    IF order_date.minute < settings.cutoff_time THEN order_date.day
    ELSE order_date.day + 1

\* apply_cutoff_logic: the date it returns; no path of it raises.
apply_cutoff_logic(rule, holidays, order_date) ==
    LET settings == get_cutoff_settings(rule)
    IN  [target_date |-> CutoffLoop(CutoffCandidate(settings, order_date), 0,
                                    settings, holidays),
         raised |-> FALSE]

\* Longest run of Holiday rows beyond the iteration limit, and the latest
\* first day of a run, in the calendars tried.
MaxOverrun == 2
MaxBlockStart == 2

CutoffRules ==
    {None} \cup {Some([cutoff_time |-> RuleCutoffMinutes, weekend_processing |-> w,
                       holiday_override |-> h]) : w \in BOOLEAN, h \in BOOLEAN}

\* Holiday calendars: one run of non-working holidays, with at most one
\* holiday near its start marked is_working.
HolidayCalendars ==
    {[closed |-> (b..(b + len - 1)) \ w, working |-> w] :
        b \in 0..MaxBlockStart,
        len \in (0..2) \cup ((cutoff_max_iterations - 1)..(cutoff_max_iterations + MaxOverrun)),
        w \in {{}} \cup {{x} : x \in 1..(MaxBlockStart + 1)}}

\* An order arrives: the request holds its arrival timestamp.
InitCutoff ==
    /\ \E rule \in CutoffRules, holidays \in HolidayCalendars :
          db = [pc |-> "policy", rule |-> rule, holidays |-> holidays]
    /\ \E day \in 0..6,
          minute \in {RuleCutoffMinutes - 1, RuleCutoffMinutes, DefaultCutoffMinutes - 1,
                      DefaultCutoffMinutes, DefaultCutoffMinutes + 1} :
          tx = [pc |-> "received", order_date |-> [day |-> day, minute |-> minute]]
    /\ alloc = AllocIdle

\* create_new_order up to the Order it builds: target_purchase_date is the
\* date apply_cutoff_logic returns; an exception fails the request.
IngestOrder ==
    /\ tx.pc = "received"
    /\ \E r \in {apply_cutoff_logic(db.rule, db.holidays, tx.order_date)} :
          tx' = IF r.raised THEN [pc |-> "failed", order_date |-> tx.order_date]
                ELSE [pc |-> "created", order_date |-> tx.order_date,
                      target_purchase_date |-> r.target_date]
    /\ UNCHANGED <<db, alloc>>

NextCutoff == IngestOrder

SpecCutoff == InitCutoff /\ [][NextCutoff]_vars

\* A business day under the policy read at ingest.
IsBusinessDay(d) ==
    LET settings == get_cutoff_settings(db.rule)
        holiday == HolidayOn(db.holidays, d)
    IN  /\ settings.weekend_processing \/ Weekday(d) < 5
        /\ IsNone(holiday) \/ settings.holiday_override \/ Val(holiday)

\* C13: the date an ingested order gets is the earliest business day on or
\* after the candidate date (arrival date before the cutoff, the next day
\* at or after it).
CutoffEarliestBusinessDay ==
    tx.pc = "created" =>
        LET candidate == CutoffCandidate(get_cutoff_settings(db.rule), tx.order_date)
        IN  /\ tx.target_purchase_date >= candidate
            /\ IsBusinessDay(tx.target_purchase_date)
            /\ \A d \in candidate..(tx.target_purchase_date - 1) : ~IsBusinessDay(d)

\* C14: when the 30 days from the candidate on are all skipped the request
\* fails and no date is returned, and every date returned is a business day.
CutoffFailsWhenUnresolved ==
    LET candidate == CutoffCandidate(get_cutoff_settings(db.rule), tx.order_date)
        unresolved == \A d \in candidate..(candidate + cutoff_max_iterations - 1) :
                          ~IsBusinessDay(d)
    IN  /\ (tx.pc # "received" /\ unresolved) => tx.pc = "failed"
        /\ tx.pc = "created" => IsBusinessDay(tx.target_purchase_date)

\* ------------------------------------------- specification of allocate alone
\* Mapping rows an allocate call may read for one (product, store) pair.
MappingChoices ==
    { [priority |-> Some(1), is_primary_store |-> FALSE, stock_status |-> "in_stock",
       current_available |-> None, max_daily_quantity |-> None],
      [priority |-> Some(1), is_primary_store |-> FALSE, stock_status |-> "in_stock",
       current_available |-> Some(1), max_daily_quantity |-> Some(MaxQty - 1)],
      [priority |-> Some(1), is_primary_store |-> TRUE, stock_status |-> "in_stock",
       current_available |-> Some(0), max_daily_quantity |-> Some(MaxQty - 1)],
      [priority |-> Some(2), is_primary_store |-> FALSE, stock_status |-> "low_stock",
       current_available |-> None, max_daily_quantity |-> Some(MaxQty - 1)],
      [priority |-> None, is_primary_store |-> FALSE, stock_status |-> "unknown",
       current_available |-> Some(1), max_daily_quantity |-> None],
      [priority |-> Some(1), is_primary_store |-> FALSE, stock_status |-> "out_of_stock",
       current_available |-> None, max_daily_quantity |-> None],
      [priority |-> Some(1), is_primary_store |-> FALSE, stock_status |-> "discontinued",
       current_available |-> Some(MaxQty - 1), max_daily_quantity |-> None] }

MappingRow(product_id, store_id, m) ==
    [product_id |-> product_id, store_id |-> store_id, priority |-> m.priority,
     is_primary_store |-> m.is_primary_store, stock_status |-> m.stock_status,
     current_available |-> m.current_available,
     max_daily_quantity |-> m.max_daily_quantity]

\* Sequences of distinct stores of 1..MaxCands: the order the rows are read in.
StoreOrders ==
    UNION { { o \in [1..n -> 1..MaxCands] : \A i, j \in 1..n : i # j => o[i] # o[j] }
            : n \in 0..MaxCands }


AllocInput(sku, q, pid, o, ms, loc, extra) ==
    [pc |-> "input",
     items |-> <<[item_id |-> 1, sku |-> sku, quantity |-> q]>> \o extra,
     rows |-> [i \in 1..Len(o) |-> MappingRow(pid, o[i], ms[i])],
     staff_location |-> loc,
     result |-> << >>]

\* An ordinary product with every read order and choice of mapping rows, with
\* and without a staff location; the flagged product without a fixed store
\* and the store-fixed product with at most one mapping row; an unknown SKU
\* alone and in a batch with an item of a known product.
InitAlloc ==
    /\ \E q \in 1..MaxQty :
         \/ \E o \in StoreOrders : \E ms \in [1..Len(o) -> MappingChoices] :
              \E loc \in {None, Some(<<1, 2>>)} :
                 alloc = AllocInput("M", q, 3, o, ms, loc, << >>)
         \/ \E o \in {x \in StoreOrders : Len(x) <= 1} :
              \E ms \in [1..Len(o) -> MappingChoices] : \E sku \in {"F", "G"} :
                 alloc = AllocInput(sku, q, Val(ProductsBySku[sku]).product_id,
                                    o, ms, None, << >>)
         \/ \E extra \in {<< >>, <<[item_id |-> 2, sku |-> "F", quantity |-> 1]>>} :
                 alloc = AllocInput("U", q, 3, << >>, << >>, None, extra)
    /\ db = DbIdle
    /\ tx = TxIdle

Allocate ==
    /\ alloc.pc = "input"
    /\ alloc' = [alloc EXCEPT !.pc = "done",
                    !.result = allocate_quantities_to_stores(
                                   alloc.items, ProductsBySku, alloc.rows,
                                   alloc.staff_location)]
    /\ UNCHANGED <<db, tx>>

NextAlloc == Allocate

SpecAlloc == InitAlloc /\ [][NextAlloc]_vars

AllocItemOf(id) == CHOOSE i \in 1..Len(alloc.items) : alloc.items[i].item_id = id

\* C1: every ItemAllocation returned by allocate conserves the quantity
\* (sum of allocation quantities + remaining_quantity = item.quantity), has
\* only allocations of quantity >= 1 and a remaining_quantity >= 0.
AllocConservation ==
    alloc.pc = "done" =>
        \A id \in DOMAIN alloc.result :
            LET a == alloc.result[id] IN
            /\ SumQty(a.allocations) + a.remaining_quantity
                   = alloc.items[AllocItemOf(id)].quantity
            /\ \A k \in 1..Len(a.allocations) : a.allocations[k].quantity >= 1
            /\ a.remaining_quantity >= 0

\* A split over two stores that skipped a store of cap 0 and left a remainder.
AllocConservationWitness ==
    /\ alloc.pc = "done"
    /\ 1 \in DOMAIN alloc.result
    /\ Len(alloc.result[1].allocations) >= 2
    /\ alloc.result[1].remaining_quantity > 0
    /\ \E i \in 1..Len(alloc.rows) :
           get_available_quantity(alloc.rows[i]) = Some(0)

\* The mapping row read for a store, and its score in the call.
AllocRowOf(store_id) ==
    alloc.rows[CHOOSE i \in 1..Len(alloc.rows) : alloc.rows[i].store_id = store_id]

AllocScoreOf(store_id) ==
    calculate_store_score(AllocRowOf(store_id), StoreRow(store_id), alloc.staff_location)

\* Store s comes before store t: higher score, or equal score and lower id.
DrawnBefore(s, t) ==
    \/ AllocScoreOf(s) > AllocScoreOf(t)
    \/ AllocScoreOf(s) = AllocScoreOf(t) /\ s < t

\* C18: the allocations of an item of an ordinary product are drawn in
\* descending score order with equal scores in ascending store_id order, and
\* a candidate store that could give something and got no allocation comes
\* after every store that got one.
AllocTieByStoreId ==
    (alloc.pc = "done" /\ alloc.items[1].sku = "M" /\ 1 \in DOMAIN alloc.result) =>
        LET a == alloc.result[1].allocations
            drawn == {a[k].store_id : k \in 1..Len(a)}
        IN  /\ \A k \in 1..(Len(a) - 1) : DrawnBefore(a[k].store_id, a[k + 1].store_id)
            /\ \A i \in 1..Len(alloc.rows) :
                  (/\ alloc.rows[i].store_id \notin drawn
                   /\ get_available_quantity(alloc.rows[i]) # Some(0))
                  => \A s \in drawn : DrawnBefore(s, alloc.rows[i].store_id)

\* C19: no allocation goes to a store whose mapping row read in the call has
\* stock_status out_of_stock or discontinued.
AllocSkipsUnavailable ==
    alloc.pc = "done" =>
        \A id \in DOMAIN alloc.result :
            \A k \in 1..Len(alloc.result[id].allocations) :
                \A i \in 1..Len(alloc.rows) :
                    (/\ alloc.rows[i].store_id = alloc.result[id].allocations[k].store_id
                     /\ alloc.rows[i].product_id
                            = Val(ProductsBySku[alloc.items[AllocItemOf(id)].sku]).product_id)
                    => alloc.rows[i].stock_status \notin {"out_of_stock", "discontinued"}

\* Row i is ranked above row j: higher score, equal scores in read order.
RankedAbove(i, j) ==
    LET si == AllocScoreOf(alloc.rows[i].store_id)
        sj == AllocScoreOf(alloc.rows[j].store_id)
    IN  si > sj \/ (si = sj /\ i < j)

\* What the store of row i received in the ItemAllocation of item 1.
Received(i) ==
    LET a == alloc.result[1].allocations
        ks == {k \in 1..Len(a) : a[k].store_id = alloc.rows[i].store_id}
    IN  IF ks = {} THEN 0 ELSE a[CHOOSE k \in ks : TRUE].quantity

RECURSIVE SumReceived(_)
SumReceived(S) ==
    IF S = {} THEN 0
    ELSE LET i == CHOOSE x \in S : TRUE IN Received(i) + SumReceived(S \ {i})

\* Every store of the call received min(remaining, cap(row)), remaining being
\* the quantity less what the stores ranked above it received, and a store
\* that received something has every store ranked above it at its cap.
GreedyUnder(cap(_)) ==
    (alloc.pc = "done" /\ alloc.items[1].sku = "M" /\ 1 \in DOMAIN alloc.result) =>
        \A i \in 1..Len(alloc.rows) :
            LET above == {j \in 1..Len(alloc.rows) : RankedAbove(j, i)}
                remaining == alloc.items[1].quantity - SumReceived(above)
            IN  /\ Received(i) = IF IsNone(cap(alloc.rows[i])) THEN remaining
                                  ELSE Min(remaining, Val(cap(alloc.rows[i])))
                /\ Received(i) > 0 =>
                       \A j \in above : /\ ~IsNone(cap(alloc.rows[j]))
                                         /\ Received(j) = Val(cap(alloc.rows[j]))

\* The cap of a row: current_available if set, else max_daily_quantity if
\* set, else unbounded.
CapSetOrUnbounded(row) ==
    IF ~IsNone(row.current_available) THEN row.current_available
    ELSE IF ~IsNone(row.max_daily_quantity) THEN row.max_daily_quantity
    ELSE None

\* The same cap, with 0 for an out_of_stock or discontinued row that has
\* neither number set.
CapZeroWhenUnavailable(row) ==
    IF IsNone(CapSetOrUnbounded(row))
       /\ row.stock_status \in {"out_of_stock", "discontinued"}
    THEN Some(0) ELSE CapSetOrUnbounded(row)

DirectedCaches ==
    {(<<x, y>> :> v) @@ (<<y, x>> :> w) :
        x \in {2}, y \in {3, 4}, v \in {100, 900}, w \in {100, 900}}
    \cup {(pr :> v) : pr \in {<<2, 3>>, <<3, 2>>, <<2, 4>>, <<3, 4>>}, v \in {100, 900}}

InitDirected ==
    /\ db = DbIdle
    /\ tx = TxIdle
    /\ \E n \in 3..MaxTour, start \in {<<1, 1>>, <<3, 2>>},
          cache \in TourCaches \cup DirectedCaches :
          \E route \in ToursOf(n, n) :
             alloc = [pc |-> "seeded", start_point |-> start, route |-> route,
                      distance_cache |-> cache, seed |-> route, iterations |-> 0]

\* One pass of "while improved and iterations < max_iterations" that found
\* an improvement.
TwoOptIterate ==
    /\ alloc.pc = "seeded"
    /\ Len(alloc.route) >= 3
    /\ alloc.iterations < max_iterations
    /\ \E r \in {TwoOptPass(alloc.start_point, alloc.route, 1, 3, FALSE,
                            alloc.distance_cache)} :
          /\ r.improved
          /\ alloc' = [alloc EXCEPT !.route = r.best, !.iterations = @ + 1]
    /\ UNCHANGED <<db, tx>>

\* return best: fewer than 3 stores, the last pass found no improvement, or
\* max_iterations passes were made.
TwoOptReturn ==
    /\ alloc.pc = "seeded"
    /\ IF Len(alloc.route) < 3 THEN TRUE
       ELSE IF alloc.iterations >= max_iterations THEN TRUE
       ELSE ~TwoOptPass(alloc.start_point, alloc.route, 1, 3, FALSE,
                        alloc.distance_cache).improved
    /\ alloc' = [alloc EXCEPT !.pc = "improved"]
    /\ UNCHANGED <<db, tx>>

NextDirected == TwoOptIterate \/ TwoOptReturn

SpecDirected == InitDirected /\ [][NextDirected]_vars

\* C39: the tour _two_opt_improve returns is, measured with the lookup it was
\* given, at most as long as its input tour, whether the matrix is complete,
\* partial or has different values for the two directions of a pair.
TwoOptNeverLengthens ==
    alloc.pc = "improved" =>
        TourDistance(alloc.start_point, None, alloc.route, alloc.distance_cache)
        <= TourDistance(alloc.start_point, None, alloc.seed, alloc.distance_cache)


\* ------------------------------------ the opening-hours pass, step by step
\* _reorder_for_opening_hours with one step per pass of its while loop.  The
\* tours are tours of stores with coordinates, as _optimize_route hands them
\* over; an opening time is absent or a minute of the day.
MaxReorder == 3

ReorderHours == {None, Some(600), Some(615), Some(640)}

ReorderCaches == {<< >>, (<<1, 2>> :> 900) @@ (<<2, 1>> :> 900)}

InitReorder ==
    /\ db = DbIdle
    /\ tx = TxIdle
    /\ \E n \in 1..MaxReorder, start \in {<<1, 1>>, <<3, 2>>}, cache \in ReorderCaches :
          \E tour \in ToursOf(n, n), hours \in [1..n -> ReorderHours] :
             \E route \in {[k \in 1..n |-> [tour[k] EXCEPT !.opening_hours = hours[k]]]} :
                alloc = [pc |-> "loop", result |-> route, i |-> 1,
                         current_time |-> DEFAULT_ROUTE_START_TIME,
                         prev |-> start, prev_id |-> None, distance_cache |-> cache,
                         seed |-> route, swapped_at |-> 0]

\* A pass that swaps result[i] and result[i + 1] and re-processes i.
ReorderSwap ==
    /\ alloc.pc = "loop"
    /\ alloc.i < Len(alloc.result)
    /\ ReorderSwaps(alloc.result, alloc.i, alloc.current_time, alloc.prev,
                    alloc.prev_id, alloc.distance_cache)
    /\ alloc' = [alloc EXCEPT !.result = SwapAt(alloc.result, alloc.i),
                              !.swapped_at = alloc.i]
    /\ UNCHANGED <<db, tx>>

\* A pass that advances the clock and moves to i + 1.
ReorderAdvance ==
    /\ alloc.pc = "loop"
    /\ alloc.i < Len(alloc.result)
    /\ ~ReorderSwaps(alloc.result, alloc.i, alloc.current_time, alloc.prev,
                     alloc.prev_id, alloc.distance_cache)
    /\ LET store == alloc.result[alloc.i]
       IN  alloc' = [alloc EXCEPT
                !.current_time = ReorderClock(store, alloc.current_time, alloc.prev,
                                              alloc.prev_id, alloc.distance_cache),
                !.prev = IF ~IsNone(store.latlng) THEN Val(store.latlng) ELSE alloc.prev,
                !.prev_id = IF ~IsNone(store.latlng) THEN Some(store.store_id)
                            ELSE alloc.prev_id,
                !.i = alloc.i + 1]
    /\ UNCHANGED <<db, tx>>

\* len(route) < 2, or the while condition fails: return result.
ReorderReturn ==
    /\ alloc.pc = "loop"
    /\ alloc.i >= Len(alloc.result)
    /\ alloc' = [alloc EXCEPT !.pc = "returned"]
    /\ UNCHANGED <<db, tx>>

NextReorder == ReorderSwap \/ ReorderAdvance \/ ReorderReturn

\* The function runs to its return: a pass of the loop that can be taken is
\* taken.
SpecReorder == InitReorder /\ [][NextReorder]_vars /\ WF_vars(NextReorder)

\* C40: _reorder_for_opening_hours returns for every tour, opening-hours
\* table and distance matrix, and the pair swapped at an index is not swapped
\* again while that index is re-processed.
ReorderTerminates ==
    /\ <>(alloc.pc = "returned")
    /\ [][~(alloc.swapped_at = alloc.i /\ alloc'.result # alloc.result)]_vars

\* The pass has returned a tour in which it swapped two stops.
ReorderTerminatesWitness ==
    /\ alloc.pc = "returned"
    /\ alloc.swapped_at > 0
    /\ alloc.result # alloc.seed

====
